---- MODULE Spec2Model ----
(***************************************************************************)
(* A model of the chat server of src/server_client: the CRLF framing codec *)
(* (socket.c), the client list helpers (chat_helpers.c) and the select     *)
(* event loop (server.c).                                                  *)
(*                                                                         *)
(* Bytes are their ASCII codes.  A C buffer char buf[BUF_SIZE] is a        *)
(* sequence of BUF_SIZE bytes; C index i is TLA+ index i+1.                *)
(***************************************************************************)
EXTENDS Integers, Sequences, FiniteSets, TLC

(***************************************************************************)
(* Program constants                                                       *)
(***************************************************************************)
MAX_USER_MSG == 128
MAX_PROTO_MSG == MAX_USER_MSG + 2
BUF_SIZE == MAX_PROTO_MSG + 1

NUL == 0
CR == 13
LF == 10
COLON == 58
DIGIT0 == 48
\* the literal "\\connected" of _server_commands
CONNECTED == <<92, 99, 111, 110, 110, 101, 99, 116, 101, 100>>

(***************************************************************************)
(* Bounds of the model                                                     *)
(***************************************************************************)
\* the filler byte of the payloads the model sends ('A')
ByteA == 65
\* codec harness: payloads of 0..LowLen bytes and of MAX_USER_MSG - NearCap up to
\* BUF_SIZE + StreamSlack bytes (through and past the capacity)
LowLen == 2
NearCap == 2
StreamSlack == 1
\* codec harness: one read() hands over at most MaxChunk bytes, or all that is
\* left of the stream but at most MaxChunk bytes
MaxChunk == 3
\* server: the peers that may connect over a run
MaxConns == 2
\* server: the transport faults (failed or zero-length write, failed read,
\* failed accept, failed select) injected over a run
MaxFaults == 1
\* server: client_count is kept down to -CountFloor (it saturates there)
CountFloor == 1

(***************************************************************************)
(* Helpers on byte sequences                                               *)
(***************************************************************************)
Min(S) == CHOOSE x \in S : \A y \in S : x <= y
Max(S) == CHOOSE x \in S : \A y \in S : x >= y

Rep(b, n) == [i \in 1..n |-> b]

\* length of the C string held in s: the bytes before the first NUL
Strlen(s) ==
    LET z == {i \in 1..Len(s) : s[i] = NUL}
    IN IF z = {} THEN Len(s) ELSE Min(z) - 1

\* memcpy(buf + off, data, Len(data)) into a fixed-size buffer
StoreAt(buf, off, data) ==
    [i \in 1..Len(buf) |->
        IF i > off /\ i <= off + Len(data) THEN data[i - off] ELSE buf[i]]

(***************************************************************************)
(* socket.c: the framing codec                                             *)
(***************************************************************************)
\* mutant: the scan runs to the last valid byte, so the LF may lie behind it
find_network_newline_past(buf, inbuf) ==
    LET hits == {i \in 0..(inbuf - 1) : buf[i + 1] = CR /\ buf[i + 2] = LF}
    IN IF hits = {} THEN -1 ELSE Min(hits) + 2

\* mutant: the CRLF is looked for from the end of the valid bytes
find_network_newline_last(buf, inbuf) ==
    LET hits == {i \in 0..(inbuf - 2) : buf[i + 1] = CR /\ buf[i + 2] = LF}
    IN IF hits = {} THEN -1 ELSE Max(hits) + 2

find_network_newline(buf, inbuf) ==
    LET hits == {i \in 0..(inbuf - 2) : buf[i + 1] = CR /\ buf[i + 2] = LF}
    IN IF hits = {} THEN -1 ELSE Min(hits) + 2

\* The transport's answer to one read(): an error, or the bytes it hands over
\* (none: end of stream).
ReadErr == [err |-> TRUE, data |-> <<>>]
ReadData(d) == [err |-> FALSE, data |-> d]

\* socket.c:60, the count handed to read(): the room behind the valid bytes
ReadRoom(inbuf) == BUF_SIZE - inbuf

\* mutant: the capacity check after the scan is dropped
read_from_socket_no_cap(buf, inbuf, rd) ==
    IF inbuf >= BUF_SIZE THEN [ret |-> -1, buf |-> buf, inbuf |-> inbuf]
    ELSE IF rd.err THEN [ret |-> -1, buf |-> buf, inbuf |-> inbuf]
    ELSE LET nb == StoreAt(buf, inbuf, rd.data)
             ni == inbuf + Len(rd.data)
             crlf == find_network_newline(nb, ni)
         IN IF Len(rd.data) = 0 THEN [ret |-> 1, buf |-> nb, inbuf |-> ni]
            ELSE IF crlf # -1 /\ crlf < BUF_SIZE
                 THEN [ret |-> 0, buf |-> nb, inbuf |-> ni]
                 ELSE [ret |-> 2, buf |-> nb, inbuf |-> ni]

\* mutant: the terminator must end before MAX_PROTO_MSG instead of BUF_SIZE
read_from_socket_tight(buf, inbuf, rd) ==
    IF inbuf >= BUF_SIZE THEN [ret |-> -1, buf |-> buf, inbuf |-> inbuf]
    ELSE IF rd.err THEN [ret |-> -1, buf |-> buf, inbuf |-> inbuf]
    ELSE LET nb == StoreAt(buf, inbuf, rd.data)
             ni == inbuf + Len(rd.data)
             crlf == find_network_newline(nb, ni)
         IN IF Len(rd.data) = 0 THEN [ret |-> 1, buf |-> nb, inbuf |-> ni]
            ELSE IF crlf # -1 /\ crlf < MAX_PROTO_MSG
                 THEN [ret |-> 0, buf |-> nb, inbuf |-> ni]
                 ELSE IF ni >= BUF_SIZE
                      THEN [ret |-> -1, buf |-> nb, inbuf |-> ni]
                      ELSE [ret |-> 2, buf |-> nb, inbuf |-> ni]

\* mutant: a terminator that ends at BUF_SIZE is accepted too
read_from_socket_loose(buf, inbuf, rd) ==
    IF inbuf >= BUF_SIZE THEN [ret |-> -1, buf |-> buf, inbuf |-> inbuf]
    ELSE IF rd.err THEN [ret |-> -1, buf |-> buf, inbuf |-> inbuf]
    ELSE LET nb == StoreAt(buf, inbuf, rd.data)
             ni == inbuf + Len(rd.data)
             crlf == find_network_newline(nb, ni)
         IN IF Len(rd.data) = 0 THEN [ret |-> 1, buf |-> nb, inbuf |-> ni]
            ELSE IF crlf # -1 /\ crlf <= BUF_SIZE
                 THEN [ret |-> 0, buf |-> nb, inbuf |-> ni]
                 ELSE IF ni >= BUF_SIZE
                      THEN [ret |-> -1, buf |-> nb, inbuf |-> ni]
                      ELSE [ret |-> 2, buf |-> nb, inbuf |-> ni]

\* read_from_socket(sock_fd, buf, &inbuf) with the transport's answer rd.
\* When the buffer is already full the function returns before read().
read_from_socket(buf, inbuf, rd) ==
    IF inbuf >= BUF_SIZE THEN [ret |-> -1, buf |-> buf, inbuf |-> inbuf]
    ELSE IF rd.err THEN [ret |-> -1, buf |-> buf, inbuf |-> inbuf]
    ELSE LET nb == StoreAt(buf, inbuf, rd.data)
             ni == inbuf + Len(rd.data)
             crlf == find_network_newline(nb, ni)
         IN IF Len(rd.data) = 0 THEN [ret |-> 1, buf |-> nb, inbuf |-> ni]
            ELSE IF crlf # -1 /\ crlf < BUF_SIZE
                 THEN [ret |-> 0, buf |-> nb, inbuf |-> ni]
                 ELSE IF ni >= BUF_SIZE
                      THEN [ret |-> -1, buf |-> nb, inbuf |-> ni]
                      ELSE [ret |-> 2, buf |-> nb, inbuf |-> ni]

\* mutant: inbuf is lowered by the frame and one byte more
get_message_lowers_more(src, inbuf) ==
    LET crlf == find_network_newline(src, inbuf)
    IN IF crlf = -1
       THEN [ret |-> 1, dst |-> <<>>, src |-> src, inbuf |-> inbuf]
       ELSE [ret |-> 0,
             dst |-> SubSeq(src, 1, crlf),
             src |-> [i \in 1..Len(src) |->
                        IF i <= inbuf - crlf THEN src[i + crlf] ELSE src[i]],
             inbuf |-> inbuf - crlf - 1]

\* mutant: the memmove that compacts src is left out
get_message_no_shift(src, inbuf) ==
    LET crlf == find_network_newline(src, inbuf)
    IN IF crlf = -1
       THEN [ret |-> 1, dst |-> <<>>, src |-> src, inbuf |-> inbuf]
       ELSE [ret |-> 0,
             dst |-> SubSeq(src, 1, crlf),
             src |-> src,
             inbuf |-> inbuf - crlf]

\* get_message(&dst, src, &inbuf): dst is the string copied out (crlf bytes,
\* then NUL), src is compacted with memmove and inbuf lowered.  src is never
\* NULL (it is the array inside the client_sock node), and the NUL stored at
\* dst[crlf] lies inside the BUF_SIZE bytes of dst because a read has returned
\* 0 before every call, which needs crlf < BUF_SIZE.
get_message(src, inbuf) ==
    LET crlf == find_network_newline(src, inbuf)
    IN IF crlf = -1
       THEN [ret |-> 1, dst |-> <<>>, src |-> src, inbuf |-> inbuf]
       ELSE [ret |-> 0,
             dst |-> SubSeq(src, 1, crlf),
             src |-> [i \in 1..Len(src) |->
                        IF i <= inbuf - crlf THEN src[i + crlf] ELSE src[i]],
             inbuf |-> inbuf - crlf]

(***************************************************************************)
(* chat_helpers.c and server.c: the pure parts                             *)
(***************************************************************************)
\* write_to_socket(sock_fd, buf, len): wr lists what each write() call returns
\* (-1, 0, or the bytes it took; past the end of wr a call takes all that is
\* left).  Gives the return value and the number of bytes put on the wire.
\* put: the bytes the write() calls took, each call from buf + total_written.
\* mutant: after a short write the next call starts at buf again
RECURSIVE write_loop_restarts(_, _, _, _, _, _)
write_loop_restarts(buf, len, wr, i, total_written, put) ==
    IF total_written >= len THEN [ret |-> 0, sent |-> total_written, put |-> put]
    ELSE LET bytes_written ==
                 IF i > Len(wr) THEN len - total_written
                 ELSE IF wr[i] > len - total_written THEN len - total_written
                 ELSE wr[i]
         IN IF bytes_written = -1 THEN [ret |-> 1, sent |-> total_written, put |-> put]
            ELSE IF bytes_written = 0 THEN [ret |-> 2, sent |-> total_written, put |-> put]
            ELSE write_loop_restarts(buf, len, wr, i + 1, total_written + bytes_written,
                                     put \o SubSeq(buf, 1, bytes_written))

\* mutant: a write() that takes no byte is treated as a write error
RECURSIVE write_loop_zero_is_error(_, _, _, _, _, _)
write_loop_zero_is_error(buf, len, wr, i, total_written, put) ==
    IF total_written >= len THEN [ret |-> 0, sent |-> total_written, put |-> put]
    ELSE LET bytes_written ==
                 IF i > Len(wr) THEN len - total_written
                 ELSE IF wr[i] > len - total_written THEN len - total_written
                 ELSE wr[i]
         IN IF bytes_written <= 0 THEN [ret |-> 1, sent |-> total_written, put |-> put]
            ELSE write_loop_zero_is_error(buf, len, wr, i + 1, total_written + bytes_written,
                     put \o SubSeq(buf, total_written + 1, total_written + bytes_written))

RECURSIVE write_loop(_, _, _, _, _, _)
write_loop(buf, len, wr, i, total_written, put) ==
    IF total_written >= len THEN [ret |-> 0, sent |-> total_written, put |-> put]
    ELSE LET bytes_written ==
                 IF i > Len(wr) THEN len - total_written
                 ELSE IF wr[i] > len - total_written THEN len - total_written
                 ELSE wr[i]
         IN IF bytes_written = -1 THEN [ret |-> 1, sent |-> total_written, put |-> put]
            ELSE IF bytes_written = 0 THEN [ret |-> 2, sent |-> total_written, put |-> put]
            ELSE write_loop(buf, len, wr, i + 1, total_written + bytes_written,
                     put \o SubSeq(buf, total_written + 1, total_written + bytes_written))

\* (buf is never NULL: every caller passes an array of its own)
write_to_socket(buf, len, wr) ==
    LET r == write_loop(buf, len, wr, 1, 0, <<>>)
    IN [ret |-> r.ret, wire |-> SubSeq(buf, 1, len), sent |-> r.sent, put |-> r.put]

\* write_buf_to_client(c, buf, len): buf[len] and buf[len+1] are overwritten
\* with CR LF and len + 2 bytes are written.  buf is the C string at the start
\* of the caller's buffer.
write_buf_to_client(buf, len, wr) ==
    IF len > BUF_SIZE - 2 THEN [ret |-> 1, wire |-> <<>>, sent |-> 0, put |-> <<>>]
    ELSE write_to_socket(SubSeq(buf, 1, len) \o <<CR, LF>>, len + 2, wr)

\* snprintf(buf, size, "%d", n)
RECURSIVE Digits(_)
Digits(n) == IF n < 10 THEN <<DIGIT0 + n>> ELSE Digits(n \div 10) \o <<DIGIT0 + (n % 10)>>

Decimal(n) == IF n < 0 THEN <<45>> \o Digits(0 - n) ELSE Digits(n)

\* snprintf(buf, size, "%s", str): at most size - 1 bytes of the C string str
SnprintfS(size, str) ==
    LET n == Strlen(str)
    IN SubSeq(str, 1, IF n < size - 1 THEN n ELSE size - 1)

\* _process_client_data:377-379, the copy of the frame that is shown and sent
FrameWriteBuf(msg) == SnprintfS(MAX_USER_MSG, msg)

\* _server_commands:332-335: whether msg, cut at data_len - 2, holds ':' and
\* then exactly "\\connected" (strncmp over the literal and its NUL)
IsConnectedCmd(msg, data_len) ==
    LET cut == IF data_len >= 2 /\ data_len - 1 <= Len(msg)
               THEN [msg EXCEPT ![data_len - 1] = NUL] ELSE msg
        str == SubSeq(cut, 1, Strlen(cut))
        col == {i \in 1..Len(str) : str[i] = COLON}
    IN /\ col # {}
       /\ SubSeq(str, Min(col) + 1, Len(str)) = CONNECTED

\* mutant: the id text is taken from client_count instead of client_id
IdText_from_count(client_id, client_count) == Decimal(client_count)

\* _send_client_id:265-270: the id text, from the counters after their increment
IdText(client_id, client_count) == Decimal(client_id)

\* mutant: the reply leaves the requester out of the count
ReplyText_others(client_count) == Decimal(client_count - 1)

\* _server_commands:336-338: the reply text
ReplyText(client_count) == Decimal(client_count)

\* strtol(tok, NULL, 10) sets errno (ERANGE) only for a number out of range;
\* a token without digits gives 0 and leaves errno alone
StrtolFails(tok) == tok = "99999999999999999999"

\* mutant: a usage error returns without closing server_fd
_parse_port_num_keeps_fd(tokens) ==
    IF Len(tokens) < 2 THEN [ret |-> -1, closed |-> FALSE]
    ELSE IF Len(tokens) > 2 THEN [ret |-> -1, closed |-> FALSE]
    ELSE IF StrtolFails(tokens[2]) THEN [ret |-> -1, closed |-> FALSE]
    ELSE [ret |-> 0, closed |-> FALSE]

\* _parse_port_num(tokens, &server_port, server_fd): the return value and
\* whether close(server_fd) was called.  tokens[1] of the code is tokens[2]
\* here (sequences start at 1); the NULL that ends the array is the end of
\* the sequence.
_parse_port_num(tokens) ==
    IF Len(tokens) < 2 THEN [ret |-> -1, closed |-> TRUE]
    ELSE IF Len(tokens) > 2 THEN [ret |-> -1, closed |-> TRUE]
    ELSE IF StrtolFails(tokens[2]) THEN [ret |-> -1, closed |-> TRUE]
    ELSE [ret |-> 0, closed |-> FALSE]

\* mutant: end of file on the control descriptor is reported as an error
_fd_close_eof_is_error(bytes_read) ==
    IF bytes_read <= 0 THEN -1 ELSE 0

\* _fd_close(fd), from what its read() of one byte returned
_fd_close(bytes_read) ==
    IF bytes_read < 0 THEN -1
    ELSE IF bytes_read = 0 THEN 1
    ELSE 0

\* _remove_client(&client_count, client_fd, all_fds): the new count, the new
\* watched set and the descriptor handed to close().  The list node is left in
\* place: remove_client of chat_helpers.c is never called.  (The count stops
\* at -CountFloor in the model.)
_remove_client(client_count, client_fd, all_fds) ==
    [client_count |-> IF client_count - 1 < 0 - CountFloor
                      THEN 0 - CountFloor ELSE client_count - 1,
     all_fds |-> all_fds \ {client_fd},
     close |-> client_fd]

(***************************************************************************)
(* State                                                                   *)
(***************************************************************************)
VARIABLES
    \* codec harness: one (buf, inbuf) pair fed by a transport
    k_orig,      \* the bytes the transport delivers in all
    k_stream,    \* the bytes not yet delivered
    k_buf,       \* char buf[BUF_SIZE]
    k_inbuf,     \* int inbuf
    k_ret,       \* the last return of read_from_socket (9: none yet)
    k_took,      \* whether the last read took bytes from the transport
    k_nready,    \* the reads that returned 0 (FrameReady), counted to 2
    k_gret,      \* the last return of get_message (9: none yet)
    k_msg,       \* the string the last get_message handed out
    k_popped,    \* history: the strings get_message handed out, end to end
    k_op         \* history: the call made last ("read", "get", or "none")

codecVars == <<k_orig, k_stream, k_buf, k_inbuf, k_ret, k_took, k_nready,
               k_gret, k_msg, k_popped, k_op>>

VARIABLES
    \* server(): locals of the event loop
    pc,            \* where the server is: start, select, eintr, accept, control, proc,
                   \* frames, bcast, after, cleanup, exited
    client_id, client_count, exit_status,
    clients,       \* the client list, head first: nodes [sock_fd, inbuf, buf]
    all_fds, listen_fds, max_fd,
    \* _process_client_data(): locals
    cur,           \* the cursor `clients` (index of the node; Len + 1: NULL)
    dest_c,        \* the broadcast cursor
    client_closed,
    write_buf      \* the C string in write_buf; data_len is its length

srvVars == <<pc, client_id, client_count, exit_status, clients, all_fds,
             listen_fds, max_fd, cur, dest_c, client_closed, write_buf>>

VARIABLES
    \* the process's descriptors and the peers behind them
    fdtab,         \* client descriptor number -> the connection it is open on (0: closed)
    peer_st,       \* connection -> idle, pending (in the backlog), open, closed
    out,           \* connection -> the bytes the peer has still to send
    inq,           \* connection -> the bytes sent and not yet read by the server
    fin,           \* connection -> the peer has closed its end
    ctl,           \* the owner's end of the control pipe: open, closed
    ctl_data       \* bytes the owner wrote to the control pipe, unread

envVars == <<fdtab, peer_st, out, inq, fin, ctl, ctl_data>>

VARIABLES
    \* history, for the properties
    faults,        \* transport faults injected so far
    hs,            \* the id handshakes, in accept order: [conn, fd, wire, sent, ret]
    fr,            \* the frame being handled: [kind, node, conn, msg, shown, writes, done, live, count]
    bad_close,     \* some close() was called on a descriptor that was not open
    ctl_closes,    \* close(server_fd) calls
    listen_closes  \* close(s.sock_fd) calls

histVars == <<faults, hs, fr, bad_close, ctl_closes, listen_closes>>

VARIABLES
    \* client.c: client() and send_msg() on the other end of a connection
    c_pc,          \* where the client is: idle, hs_read, hs_get, select, input,
                   \* recv_read, recv_get, send_msg, done, crashed
    c_tokens,      \* send_msg: char **tokens
    c_id,          \* int client_id
    c_wbuf,        \* char write_buf[BUF_SIZE]
    c_buf,         \* s.buf
    c_inbuf,       \* s.inbuf
    c_ready,       \* the descriptors select() reported: a subset of {"stdin", "sock"}
    c_ret,         \* the value returned (9: not returned yet)
    c_stdin,       \* the bytes stdin still holds (a pushed-back byte first)
    c_typed,       \* the user has typed the input (and closed stdin after it)
    c_eof,         \* the end-of-file indicator of stdin
    c_plan,        \* the bytes the server has still to send
    c_net,         \* the bytes sent by the server and not yet read
    c_netfin,      \* the server has closed the connection
    \* history, for the properties
    c_closes,      \* close(s.sock_fd) calls
    c_first,       \* the first frame received, without its CRLF (<<>>: none)
    c_entered,     \* the select loop of client() was entered
    c_last,        \* the bytes of the last write_to_socket call
    c_nsent,       \* write_to_socket calls, counted up to MaxFrames
    c_shown,       \* the last string given to display_message
    c_gone,        \* in the loop, a read found the connection closed by the server
    c_wild,        \* msg was used where _recieve_message had not set it
    c_faults,      \* transport faults injected so far
    c_line,        \* all the user types over the run
    c_echo         \* the payloads of the frames written by client(), without
                   \* their prefix, one after the other (the first MaxFrames)

cliVars == <<c_pc, c_tokens, c_id, c_wbuf, c_buf, c_inbuf, c_ready, c_ret,
             c_stdin, c_typed, c_eof, c_plan, c_net, c_netfin, c_closes,
             c_first, c_entered, c_last, c_nsent, c_shown, c_gone, c_wild,
             c_faults, c_line, c_echo>>

VARIABLES
    \* the frame loop of _process_client_data on one frame
    q_msg,         \* the string get_message handed out (with its CRLF)
    q_kind         \* what the loop did with it: none (not yet), query, bcast

cmdVars == <<q_msg, q_kind>>

VARIABLES
    \* history of the bytes the server handed to each connection
    torn           \* connection -> whole (only whole frames so far), part (the
                   \* last write stopped inside a frame), mixed (bytes were
                   \* written behind a frame that was cut short)

wireVars == <<torn>>

VARIABLES
    \* one call of write_to_socket
    w_buf,         \* char *buf
    w_len,         \* int len
    w_wr,          \* what the write() calls return, in order
    w_res          \* the return value and the bytes put on the wire (ret 9: not called yet)

wrVars == <<w_buf, w_len, w_wr, w_res>>

vars == <<codecVars, cliVars, cmdVars, wrVars, wireVars, srvVars, envVars, histVars>>

(***************************************************************************)
(* Codec harness: read_from_socket and get_message on one buffer           *)
(***************************************************************************)
Payload(n, pat) ==
    [i \in 1..n |->
        IF pat = "crend" /\ i = n THEN CR
        ELSE IF pat = "lfstart" /\ i = 1 THEN LF
        ELSE ByteA]

CodecLens == (0..LowLen) \cup ((MAX_USER_MSG - NearCap)..(BUF_SIZE + StreamSlack))

ChunkSizes(left) ==
    {c \in 1..left : c <= MaxChunk \/ left - c <= MaxChunk}

\* one frame (or an unterminated run) of every length up to past the capacity
OneRunStreams ==
    {Payload(n, pat) \o (IF t THEN <<CR, LF>> ELSE <<>>) :
        n \in CodecLens, pat \in {"plain", "crend", "lfstart"}, t \in BOOLEAN}

\* two short frames and the start of a third, so that one read can bring more
\* than one frame
ShortFrames == {Payload(n, "plain") \o <<CR, LF>> : n \in 0..LowLen}
StreamTails == {<<>>, <<ByteA>>, <<ByteA, CR>>}
ManyFrameStreams ==
    {f \o g \o t : f \in ShortFrames, g \in ShortFrames, t \in StreamTails}

\* a frame of the greatest length with the start of another behind it, so
\* that a read can fill the buffer and still find a frame
CapStreams ==
    {Payload(MAX_USER_MSG, "plain") \o <<CR, LF>> \o t : t \in StreamTails \ {<<>>}}

CodecStreams == OneRunStreams \cup ManyFrameStreams \cup CapStreams

CodecIdle ==
    /\ k_orig = <<>> /\ k_stream = <<>>
    /\ k_buf = Rep(NUL, BUF_SIZE) /\ k_inbuf = 0
    /\ k_ret = 9 /\ k_took = FALSE /\ k_nready = 0 /\ k_gret = 9 /\ k_msg = <<>>
    /\ k_popped = <<>> /\ k_op = "none"

\* The buffer of a fresh connection is zeroed (server.c:223); the client's is
\* not initialised (client.c:293), so any content may lie past inbuf.
CodecStart ==
    /\ k_orig \in CodecStreams
    /\ k_stream = k_orig
    /\ k_buf \in {Rep(NUL, BUF_SIZE), Rep(LF, BUF_SIZE)}
    /\ k_inbuf = 0
    /\ k_ret = 9 /\ k_took = FALSE /\ k_nready = 0 /\ k_gret = 9 /\ k_msg = <<>>
    /\ k_popped = <<>> /\ k_op = "none"

CodecApplyRead(rd) ==
    LET r == read_from_socket(k_buf, k_inbuf, rd)
        took == IF k_inbuf >= BUF_SIZE \/ rd.err THEN 0 ELSE Len(rd.data)
    IN /\ k_buf' = r.buf
       /\ k_inbuf' = r.inbuf
       /\ k_ret' = r.ret
       /\ k_took' = (took > 0)
       /\ k_stream' = SubSeq(k_stream, took + 1, Len(k_stream))
       /\ k_nready' = IF r.ret = 0 /\ k_nready < 2 THEN k_nready + 1 ELSE k_nready
       /\ k_op' = "read"
       /\ UNCHANGED <<k_orig, k_gret, k_msg, k_popped>>

\* one read() that hands over the next c bytes of the stream
CodecRead ==
    /\ k_stream # <<>>
    /\ k_ret \notin {-1, 1}
    /\ \E c \in ChunkSizes(Len(k_stream)) :
          /\ c <= ReadRoom(k_inbuf) \/ k_inbuf >= BUF_SIZE
          /\ CodecApplyRead(ReadData(SubSeq(k_stream, 1, c)))

\* the peer has sent everything and closed: read() returns 0
CodecReadEof ==
    /\ k_stream = <<>>
    /\ k_ret \notin {-1, 1}
    /\ CodecApplyRead(ReadData(<<>>))

\* read() fails
CodecReadError ==
    /\ k_ret \notin {-1, 1}
    /\ CodecApplyRead(ReadErr)

\* Both callers extract only after a read that returned 0 and then call
\* get_message again and again until it fails (server.c:376, client.c:190).
CodecGet ==
    /\ k_ret = 0
    /\ LET g == get_message(k_buf, k_inbuf)
       IN /\ k_gret' = g.ret
          /\ k_msg' = g.dst
          /\ k_buf' = g.src
          /\ k_inbuf' = g.inbuf
          /\ k_popped' = k_popped \o g.dst
    /\ k_op' = "get"
    /\ UNCHANGED <<k_orig, k_stream, k_ret, k_took, k_nready>>

NextCodec ==
    /\ CodecRead \/ CodecReadEof \/ CodecReadError \/ CodecGet
    /\ UNCHANGED <<cliVars, cmdVars, wrVars, wireVars, srvVars, envVars, histVars>>

(***************************************************************************)
(* The server's surroundings: descriptors, peers, the control pipe         *)
(***************************************************************************)
\* server_fd, the read end of the control pipe (server.c:48)
CtlFd == 3
\* s.sock_fd, the listening socket (server.c:67)
ListenFd == 4
\* accept() returns the lowest free descriptor number
ClientFds == (ListenFd + 1)..(ListenFd + MaxConns)
Conns == 1..MaxConns

\* what a peer may send: a chat line "1:A" and the status query "1:\connected"
Chat == <<DIGIT0 + 1, COLON, ByteA, CR, LF>>
Query == <<DIGIT0 + 1, COLON>> \o CONNECTED \o <<CR, LF>>
\* a chat line of the greatest length: 128 payload bytes, then CRLF
LongChat == <<DIGIT0 + 1, COLON>> \o Rep(ByteA, MAX_USER_MSG - 2) \o <<CR, LF>>
\* a second chat line, "1:B"
Chat2 == <<DIGIT0 + 1, COLON, ByteA + 1, CR, LF>>
\* the first peer sends two lines, the query with a chat line right behind
\* it or two chat lines; the chat line of the second is one of the greatest
\* length; any later peer sends one short chat line
ScriptsOf(c) ==
    IF c = 1 THEN {Query \o Chat, Chat \o Chat2}
    ELSE IF c = 2 THEN {LongChat, Query}
    ELSE {Chat}

NoFrame == [kind |-> "none", node |-> 0, conn |-> 0, msg |-> <<>>, shown |-> <<>>,
            writes |-> <<>>, done |-> FALSE, live |-> 0, count |-> 0]

ServerIdle ==
    /\ pc = "exited" /\ client_id = 0 /\ client_count = 0 /\ exit_status = 0
    /\ clients = <<>> /\ all_fds = {} /\ listen_fds = {} /\ max_fd = 0
    /\ cur = 0 /\ dest_c = 0 /\ client_closed = 0 /\ write_buf = <<>>
    /\ fdtab = [f \in ClientFds |-> 0]
    /\ peer_st = [c \in Conns |-> "idle"]
    /\ out = [c \in Conns |-> <<>>]
    /\ inq = [c \in Conns |-> <<>>]
    /\ fin = [c \in Conns |-> FALSE]
    /\ ctl = "open" /\ ctl_data = 0
    /\ faults = 0 /\ hs = <<>> /\ fr = NoFrame
    /\ bad_close = FALSE /\ ctl_closes = 0 /\ listen_closes = 0
    /\ torn = [c \in Conns |-> "whole"]

\* no client program is running
ClientIdle ==
    /\ c_pc = "idle" /\ c_tokens = <<>> /\ c_id = 0
    /\ c_wbuf = <<>> /\ c_buf = <<>> /\ c_inbuf = 0 /\ c_ready = {}
    /\ c_ret = 9 /\ c_stdin = <<>> /\ c_typed = FALSE /\ c_eof = FALSE
    /\ c_plan = <<>> /\ c_net = <<>> /\ c_netfin = FALSE
    /\ c_closes = 0 /\ c_first = <<>> /\ c_entered = FALSE
    /\ c_last = <<>> /\ c_nsent = 0 /\ c_shown = <<>>
    /\ c_gone = FALSE /\ c_wild = FALSE /\ c_faults = 0
    /\ c_line = c_stdin /\ c_echo = <<>>

\* no frame is being classified
CommandsIdle == q_msg = <<>> /\ q_kind = "none"

NotCalled == [ret |-> 9, put |-> <<>>]

\* write_to_socket is not being called on its own
WriterIdle == w_buf = <<>> /\ w_len = 0 /\ w_wr = <<>> /\ w_res = NotCalled

\* the codec harness on its own: a fresh node's buffer, no server running
InitCodec == CodecStart /\ ServerIdle /\ ClientIdle /\ CommandsIdle /\ WriterIdle

\* the state when server() is called
Init ==
    /\ CodecIdle
    /\ ClientIdle
    /\ CommandsIdle /\ WriterIdle
    /\ pc = "start" /\ client_id = 0 /\ client_count = 0 /\ exit_status = 0
    /\ clients = <<>>
    /\ all_fds = {}
    /\ listen_fds = {}
    /\ max_fd = 0
    /\ cur = 0 /\ dest_c = 0 /\ client_closed = 0 /\ write_buf = <<>>
    /\ fdtab = [f \in ClientFds |-> 0]
    /\ peer_st = [c \in Conns |-> "idle"]
    /\ out = [c \in Conns |-> <<>>]
    /\ inq = [c \in Conns |-> <<>>]
    /\ fin = [c \in Conns |-> FALSE]
    /\ ctl = "open" /\ ctl_data = 0
    /\ faults = 0 /\ hs = <<>> /\ fr = NoFrame
    /\ bad_close = FALSE /\ ctl_closes = 0 /\ listen_closes = 0
    /\ torn = [c \in Conns |-> "whole"]

Live == {f \in ClientFds : fdtab[f] # 0}

\* close() on each descriptor of the sequence fds, in order
ClosedConns(fds) == {fdtab[fds[i]] : i \in 1..Len(fds)} \ {0}
TabAfterClose(fds) ==
    [f \in ClientFds |-> IF \E i \in 1..Len(fds) : fds[i] = f THEN 0 ELSE fdtab[f]]
CloseHitsClosed(fds) ==
    \E i \in 1..Len(fds) :
        \/ fdtab[fds[i]] = 0
        \/ \E j \in 1..(i - 1) : fds[j] = fds[i]

\* (t: the write history before the close; that of a closed connection is
\* gone with it)
CloseFdsFrom(fds, t) ==
    /\ torn' = [c \in Conns |-> IF c \in ClosedConns(fds) THEN "whole" ELSE t[c]]
    /\ fdtab' = TabAfterClose(fds)
    /\ peer_st' = [c \in Conns |-> IF c \in ClosedConns(fds) THEN "closed" ELSE peer_st[c]]
    /\ out' = [c \in Conns |-> IF c \in ClosedConns(fds) THEN <<>> ELSE out[c]]
    /\ inq' = [c \in Conns |-> IF c \in ClosedConns(fds) THEN <<>> ELSE inq[c]]
    /\ fin' = [c \in Conns |-> IF c \in ClosedConns(fds) THEN FALSE ELSE fin[c]]
    /\ bad_close' = (bad_close \/ CloseHitsClosed(fds))

CloseFds(fds) == CloseFdsFrom(fds, torn)

NoCloseFrom(t) ==
    /\ torn' = t
    /\ UNCHANGED <<fdtab, peer_st, out, inq, fin, bad_close>>

NoClose == NoCloseFrom(torn)

\* what the write() calls on descriptor fd may return: all bytes taken; on a
\* closed descriptor -1 (EBADF); or, as a fault, -1 at once, 0 at once, or -1
\* after one byte was taken
FaultyWrites ==
    IF faults < MaxFaults THEN {<<-1>>, <<0>>, <<1, -1>>} ELSE {}

\* what connection c (0: none, the descriptor is closed) has been handed once
\* the write w is over
TornAfter(c, w) ==
    IF c = 0 \/ w.sent = 0 THEN torn
    ELSE [torn EXCEPT ![c] = IF @ # "whole" THEN "mixed"
                             ELSE IF w.sent < Len(w.wire) THEN "part"
                             ELSE "whole"]

WriteAnswers(fd) ==
    IF fdtab[fd] = 0 THEN {<<-1>>} ELSE {<<>>} \cup FaultyWrites

IsFault(fd, wr) == fdtab[fd] # 0 /\ wr # <<>>

(***************************************************************************)
(* The peers and the owner of the control pipe                             *)
(***************************************************************************)
\* The peers move, and the owner writes, while the server waits in select()
\* or is blocked in read(): what they do during the rest of a pass is seen by
\* the server no earlier than its next read() or select().
EnvMayMove ==
    \/ pc = "select"
    \/ /\ pc = "proc"
       /\ cur >= 1 /\ cur <= Len(clients)
       /\ clients[cur].sock_fd \in listen_fds
       /\ clients[cur].inbuf < BUF_SIZE
       /\ fdtab[clients[cur].sock_fd] # 0
       /\ inq[fdtab[clients[cur].sock_fd]] = <<>>
       /\ ~fin[fdtab[clients[cur].sock_fd]]

PeerConnect(c) ==
    /\ EnvMayMove
    /\ peer_st[c] = "idle"
    \* peers connect one after the other, each once the one before was accepted
    /\ (IF c = 1 THEN TRUE ELSE peer_st[c - 1] \in {"open", "closed"})
    /\ \E s \in ScriptsOf(c) : out' = [out EXCEPT ![c] = s]
    /\ peer_st' = [peer_st EXCEPT ![c] = "pending"]
    /\ UNCHANGED <<codecVars, cliVars, cmdVars, wrVars, wireVars, srvVars, fdtab, inq, fin, ctl, ctl_data, histVars>>

\* a peer sends all it has left, or all but the last byte (the LF)
SendSizes(left) == {k \in 1..left : k = left \/ k = left - 1}

\* (what a peer sends or closes while it waits in the backlog reaches the
\* server as if it were done right after the accept)
PeerSend(c) ==
    /\ EnvMayMove
    /\ peer_st[c] = "open"
    /\ ~fin[c]
    /\ out[c] # <<>>
    /\ \E k \in SendSizes(Len(out[c])) :
          /\ inq' = [inq EXCEPT ![c] = inq[c] \o SubSeq(out[c], 1, k)]
          /\ out' = [out EXCEPT ![c] = SubSeq(out[c], k + 1, Len(out[c]))]
    /\ UNCHANGED <<codecVars, cliVars, cmdVars, wrVars, wireVars, srvVars, fdtab, peer_st, fin, ctl, ctl_data, histVars>>

PeerClose(c) ==
    /\ EnvMayMove
    /\ peer_st[c] = "open"
    /\ ~fin[c]
    /\ fin' = [fin EXCEPT ![c] = TRUE]
    /\ out' = [out EXCEPT ![c] = <<>>]
    /\ UNCHANGED <<codecVars, cliVars, cmdVars, wrVars, wireVars, srvVars, fdtab, peer_st, inq, ctl, ctl_data, histVars>>

\* the pass is on a node whose descriptor is closed already: it reads and
\* removes it over and over and does not come back to select()
OnRemovedNode ==
    /\ pc = "proc"
    /\ cur >= 1 /\ cur <= Len(clients)
    /\ fdtab[clients[cur].sock_fd] = 0

\* the owner closes its end of the control pipe.  The server looks at the
\* pipe in select() only: a close during a pass is seen at the next select()
\* as if it were done there, so the model has it done there, or during a
\* pass that is on a removed node.
CtlClose ==
    /\ EnvMayMove \/ OnRemovedNode
    /\ ctl = "open"
    /\ ctl' = "closed"
    /\ UNCHANGED <<codecVars, cliVars, cmdVars, wrVars, wireVars, srvVars, fdtab, peer_st, out, inq, fin, ctl_data, histVars>>

\* the owner writes one byte to the control pipe (ctl_data: the bytes unread)
CtlWrite ==
    /\ EnvMayMove
    /\ ctl = "open" /\ ctl_data = 0
    /\ \A c \in Conns : peer_st[c] = "idle"
    /\ ctl_data' = 1
    /\ UNCHANGED <<codecVars, cliVars, cmdVars, wrVars, wireVars, srvVars, fdtab, peer_st, out, inq, fin, ctl, histVars>>

EnvNext ==
    \/ \E c \in Conns : PeerConnect(c) \/ PeerSend(c) \/ PeerClose(c)
    \/ CtlClose
    \/ CtlWrite

(***************************************************************************)
(* server(): the event loop                                                *)
(***************************************************************************)
Readable(fd) ==
    IF fd = ListenFd THEN \E c \in Conns : peer_st[c] = "pending"
    ELSE IF fd = CtlFd THEN ctl = "closed" \/ ctl_data = 1
    ELSE /\ fdtab[fd] # 0
         /\ inq[fdtab[fd]] # <<>> \/ fin[fdtab[fd]]

\* server.c:362-366: from node i on, the first node whose descriptor is in
\* the ready set (Len + 1: the cursor runs to NULL)
NextReadyFrom(i, lst, ready) ==
    LET hit == {j \in i..Len(lst) : lst[j].sock_fd \in ready}
    IN IF hit = {} THEN Len(lst) + 1 ELSE Min(hit)

\* The cursor of _process_client_data is moved to node i of lst and on over
\* the nodes that are not ready; at NULL the pass returns and the loop starts
\* over with listen_fds = all_fds (server.c:87).
CursorTo(i, lst, ready, watched) ==
    LET j == NextReadyFrom(i, lst, ready)
    IN IF j > Len(lst)
       THEN /\ pc' = "select" /\ cur' = 0 /\ listen_fds' = watched /\ fr' = NoFrame
       ELSE /\ pc' = "proc" /\ cur' = j /\ listen_fds' = ready /\ fr' = NoFrame

\* client_closed, write_buf and dest_c belong to one turn of the loops of
\* _process_client_data (server.c:367, :377, :394): they are gone, or
\* assigned anew before they are read, once the turn is over
TurnOver == client_closed' = 0 /\ write_buf' = <<>> /\ dest_c' = 0

\* The bytes of a node's buf from inbuf on are never read before they are
\* written again (find_network_newline stops at inbuf, read() stores at
\* buf + inbuf): the model keeps them NUL.
ValidBytes(buf, inbuf) == [i \in 1..Len(buf) |-> IF i <= inbuf THEN buf[i] ELSE NUL]

\* server.c:137-138 with _clean_exit: every node's descriptor is closed and
\* the node freed, the control descriptor and the listening socket are
\* closed; server() returns exit_status and its locals are gone
CleanExitEffect ==
    /\ CloseFds([i \in 1..Len(clients) |-> clients[i].sock_fd])
    /\ ctl_closes' = ctl_closes + 1
    /\ listen_closes' = listen_closes + 1
    /\ pc' = "exited"
    /\ clients' = <<>>
    /\ all_fds' = {} /\ listen_fds' = {} /\ max_fd' = 0
    /\ cur' = 0 /\ dest_c' = 0 /\ client_closed' = 0 /\ write_buf' = <<>>
    /\ fr' = NoFrame

\* the command lines server() may be called with: no port, a port, a token
\* without digits, a number out of range, one token too many
ServerArgs ==
    {<<"start-server">>, <<"start-server", "8080">>, <<"start-server", "abc">>,
     <<"start-server", "99999999999999999999">>, <<"start-server", "8080", "x">>}

\* server() returns before its loop: nothing was accepted or watched
EarlyReturn ==
    /\ exit_status' = -1
    /\ pc' = "exited"
    /\ UNCHANGED <<codecVars, cliVars, cmdVars, wrVars, wireVars, client_id, client_count, clients, all_fds, listen_fds,
                   max_fd, cur, dest_c, client_closed, write_buf, envVars, hs, fr,
                   bad_close>>

\* server.c:53-56: _parse_port_num rejects the command line
StartUsageError ==
    /\ pc = "start"
    /\ \E tokens \in ServerArgs :
          /\ _parse_port_num(tokens).ret = -1
          /\ ctl_closes' = (IF _parse_port_num(tokens).closed
                            THEN ctl_closes + 1 ELSE ctl_closes)
    /\ EarlyReturn
    /\ UNCHANGED <<faults, listen_closes>>

\* server.c:58-62: signal() fails, close(server_fd)
StartSignalFail ==
    /\ pc = "start"
    /\ \E tokens \in ServerArgs : _parse_port_num(tokens).ret = 0
    /\ faults < MaxFaults
    /\ faults' = faults + 1
    /\ ctl_closes' = ctl_closes + 1
    /\ EarlyReturn
    /\ UNCHANGED listen_closes

\* server.c:67-70: setup_server_socket fails, _clean_exit on the empty list
\* closes server_fd and s.sock_fd
StartSetupFail ==
    /\ pc = "start"
    /\ \E tokens \in ServerArgs : _parse_port_num(tokens).ret = 0
    /\ faults < MaxFaults
    /\ faults' = faults + 1
    /\ ctl_closes' = ctl_closes + 1
    /\ listen_closes' = listen_closes + 1
    /\ EarlyReturn

\* server.c:53-84: the set-up succeeds, the loop is entered with the
\* listening socket and the control descriptor watched
StartOk ==
    /\ pc = "start"
    /\ \E tokens \in ServerArgs :
          /\ _parse_port_num(tokens).ret = 0
          /\ ctl_closes' = (IF _parse_port_num(tokens).closed
                            THEN ctl_closes + 1 ELSE ctl_closes)
    /\ all_fds' = {ListenFd, CtlFd}
    /\ listen_fds' = {ListenFd, CtlFd}
    /\ max_fd' = (IF CtlFd > ListenFd THEN CtlFd ELSE ListenFd)
    /\ pc' = "select"
    /\ UNCHANGED <<codecVars, cliVars, cmdVars, wrVars, wireVars, client_id, client_count, exit_status, clients, cur,
                   dest_c, client_closed, write_buf, envVars, faults, hs, fr,
                   bad_close, listen_closes>>

\* server.c:87-88, select() returns with the descriptors that are readable;
\* the loop body goes to the accept (:100), to the control read (:122) or
\* straight into _process_client_data (:134)
Select ==
    /\ pc = "select"
    /\ LET ready == {fd \in all_fds : fd <= max_fd /\ Readable(fd)}
       IN /\ ready # {}
          /\ IF ListenFd \in ready
             THEN pc' = "accept" /\ listen_fds' = ready /\ UNCHANGED <<cur, fr>>
             ELSE IF CtlFd \in ready
             THEN pc' = "control" /\ listen_fds' = ready /\ UNCHANGED <<cur, fr>>
             ELSE CursorTo(1, clients, ready, all_fds)
    /\ UNCHANGED <<codecVars, cliVars, cmdVars, wrVars, wireVars, client_id, client_count, exit_status, clients, all_fds,
                   max_fd, dest_c, client_closed, write_buf, envVars, faults, hs,
                   bad_close, ctl_closes, listen_closes>>

\* server.c:88-90, select() is interrupted: it returns -1 with errno EINTR
\* (counted with the faults)
SelectEINTR ==
    /\ pc = "select"
    /\ faults < MaxFaults
    /\ faults' = faults + 1
    /\ pc' = "eintr"
    /\ UNCHANGED <<codecVars, cliVars, cmdVars, wrVars, wireVars, client_id, client_count, exit_status, clients, all_fds,
                   listen_fds, max_fd, cur, dest_c, client_closed, write_buf, envVars,
                   hs, fr, bad_close, ctl_closes, listen_closes>>

\* mutant: an interrupted select() is taken for a failed one
SelectRetry_breaks ==
    /\ pc = "eintr"
    /\ exit_status' = -1
    /\ CleanExitEffect
    /\ UNCHANGED <<codecVars, cliVars, cmdVars, wrVars, client_id, client_count, ctl, ctl_data, faults, hs>>

\* server.c:90-92 and :87, continue: the wait is repeated on all_fds
SelectRetry ==
    /\ pc = "eintr"
    /\ pc' = "select"
    /\ listen_fds' = all_fds
    /\ UNCHANGED <<codecVars, cliVars, cmdVars, wrVars, wireVars, client_id, client_count, exit_status, clients, all_fds,
                   max_fd, cur, dest_c, client_closed, write_buf, envVars, histVars>>

\* server.c:93-95 and :137, select() fails otherwise: break, clean exit
SelectFail ==
    /\ pc = "select"
    /\ faults < MaxFaults
    /\ faults' = faults + 1
    /\ exit_status' = -1
    /\ CleanExitEffect
    /\ UNCHANGED <<codecVars, cliVars, cmdVars, wrVars, client_id, client_count, ctl, ctl_data, hs>>

NextPending == Min({c \in Conns : peer_st[c] = "pending"})
LowestFreeFd == Min({f \in ClientFds : fdtab[f] = 0})

\* server.c:102-105 with _accept_connection:206-210, accept() fails: continue
AcceptError ==
    /\ pc = "accept"
    /\ faults < MaxFaults
    /\ faults' = faults + 1
    /\ pc' = "select"
    /\ listen_fds' = all_fds
    /\ UNCHANGED <<codecVars, cliVars, cmdVars, wrVars, wireVars, client_id, client_count, exit_status, clients, all_fds,
                   max_fd, cur, dest_c, client_closed, write_buf, envVars,
                   hs, fr, bad_close, ctl_closes, listen_closes>>

\* server.c:102-105 with _accept_connection:212-217, malloc fails: the new
\* descriptor is closed again, continue
AcceptNoMem ==
    /\ pc = "accept"
    /\ faults < MaxFaults
    /\ faults' = faults + 1
    /\ peer_st' = [peer_st EXCEPT ![NextPending] = "closed"]
    /\ out' = [out EXCEPT ![NextPending] = <<>>]
    /\ inq' = [inq EXCEPT ![NextPending] = <<>>]
    /\ fin' = [fin EXCEPT ![NextPending] = FALSE]
    /\ pc' = "select"
    /\ listen_fds' = all_fds
    /\ UNCHANGED <<codecVars, cliVars, cmdVars, wrVars, wireVars, client_id, client_count, exit_status, clients, all_fds,
                   max_fd, cur, dest_c, client_closed, write_buf, fdtab,
                   ctl, ctl_data, hs, fr, bad_close, ctl_closes, listen_closes>>

\* server.c:100-119: _accept_connection appends a node, the descriptor is
\* watched, _send_client_id counts the client and writes its id
AcceptOk ==
    /\ pc = "accept"
    /\ LET c == NextPending
           client_fd == LowestFreeFd
           new_client == [sock_fd |-> client_fd, inbuf |-> 0, buf |-> Rep(NUL, BUF_SIZE)]
           id == client_id + 1
           cnt == client_count + 1
           txt == IdText(id, cnt)
       IN \E wr \in {<<>>} \cup FaultyWrites :
            LET w == write_buf_to_client(txt, Len(txt), wr)
                rm == _remove_client(cnt, client_fd, all_fds \cup {client_fd})
            IN /\ clients' = Append(clients, new_client)
               /\ max_fd' = (IF client_fd > max_fd THEN client_fd ELSE max_fd)
               /\ client_id' = id
               /\ faults' = (IF wr # <<>> THEN faults + 1 ELSE faults)
               /\ hs' = Append(hs, [conn |-> c, fd |-> client_fd, wire |-> w.wire,
                                    sent |-> w.sent, ret |-> w.ret])
               /\ torn' = TornAfter(c, w)
               /\ IF w.ret = 1
                  THEN \* _send_client_id returns -1: break
                       /\ exit_status' = -1
                       /\ pc' = "cleanup"
                       /\ client_count' = cnt
                       /\ all_fds' = all_fds \cup {client_fd}
                       /\ fdtab' = [fdtab EXCEPT ![client_fd] = c]
                       /\ peer_st' = [peer_st EXCEPT ![c] = "open"]
                       /\ UNCHANGED <<listen_fds, cur, fr, out, inq, fin, bad_close>>
                  ELSE IF w.ret = 2
                  THEN \* _send_client_id returns 1: _remove_client, continue
                       /\ pc' = "select"
                       /\ client_count' = rm.client_count
                       /\ all_fds' = rm.all_fds
                       /\ listen_fds' = rm.all_fds
                       /\ fdtab' = fdtab
                       /\ peer_st' = [peer_st EXCEPT ![c] = "closed"]
                       /\ out' = [out EXCEPT ![c] = <<>>]
                       /\ inq' = [inq EXCEPT ![c] = <<>>]
                       /\ fin' = [fin EXCEPT ![c] = FALSE]
                       /\ UNCHANGED <<exit_status, cur, fr, bad_close>>
                  ELSE \* on to the control read, or into the pass
                       /\ client_count' = cnt
                       /\ all_fds' = all_fds \cup {client_fd}
                       /\ fdtab' = [fdtab EXCEPT ![client_fd] = c]
                       /\ peer_st' = [peer_st EXCEPT ![c] = "open"]
                       /\ IF CtlFd \in listen_fds
                          THEN pc' = "control" /\ UNCHANGED <<listen_fds, cur, fr>>
                          ELSE CursorTo(1, Append(clients, new_client), listen_fds,
                                        all_fds \cup {client_fd})
                       /\ UNCHANGED <<exit_status, out, inq, fin, bad_close>>
    /\ UNCHANGED <<codecVars, cliVars, cmdVars, wrVars, dest_c, client_closed, write_buf,
                   ctl, ctl_data, ctl_closes, listen_closes>>

\* server.c:122-134: what follows the read of one byte from the control
\* pipe, which returned bytes_read: break on _fd_close < 0 (exit_status -1)
\* and on _fd_close # 0 (exit_status 0), else on to the pass
AfterControlRead(bytes_read) ==
    LET server_closed == _fd_close(bytes_read)
    IN IF server_closed < 0
       THEN exit_status' = -1 /\ CleanExitEffect
       ELSE IF server_closed # 0
       THEN exit_status' = 0 /\ CleanExitEffect
       ELSE /\ CursorTo(1, clients, listen_fds, all_fds)
            /\ NoClose
            /\ UNCHANGED <<exit_status, clients, all_fds, max_fd, dest_c, client_closed,
                           write_buf, ctl_closes, listen_closes>>

\* A byte was in the pipe: read() returns 1
ControlByte ==
    /\ pc = "control"
    /\ ctl_data = 1
    /\ ctl_data' = 0
    /\ AfterControlRead(1)
    /\ UNCHANGED <<codecVars, cliVars, cmdVars, wrVars, client_id, client_count, ctl, faults, hs>>

\* End of file on the control pipe: read() returns 0
ControlEof ==
    /\ pc = "control"
    /\ ctl_data # 1
    /\ ctl = "closed"
    /\ AfterControlRead(0)
    /\ UNCHANGED <<codecVars, cliVars, cmdVars, wrVars, client_id, client_count, ctl, ctl_data, faults, hs>>

\* read() on the control pipe fails: it returns -1
ControlError ==
    /\ pc = "control"
    /\ faults < MaxFaults
    /\ faults' = faults + 1
    /\ AfterControlRead(-1)
    /\ UNCHANGED <<codecVars, cliVars, cmdVars, wrVars, client_id, client_count, ctl, ctl_data, hs>>

\* server.c:137-138 after the break of server.c:112-114
CleanExit ==
    /\ pc = "cleanup"
    /\ CleanExitEffect
    /\ UNCHANGED <<codecVars, cliVars, cmdVars, wrVars, client_id, client_count, exit_status, ctl,
                   ctl_data, faults, hs>>

(***************************************************************************)
(* _process_client_data(): one pass over the client list                   *)
(***************************************************************************)
\* what read() on the node's descriptor may answer: the queued bytes that fit,
\* end of stream once the peer has closed, -1 on a closed descriptor (EBADF)
\* or as a fault; with nothing queued and the peer still there it blocks
ReadAnswers(node) ==
    IF fdtab[node.sock_fd] = 0 THEN {ReadErr}
    ELSE LET q == inq[fdtab[node.sock_fd]]
             room == ReadRoom(node.inbuf)
         IN (IF q # <<>>
             THEN {ReadData(SubSeq(q, 1, IF Len(q) < room THEN Len(q) ELSE room))}
             ELSE IF fin[fdtab[node.sock_fd]] THEN {ReadData(<<>>)} ELSE {})
            \cup (IF faults < MaxFaults THEN {ReadErr} ELSE {})

\* server.c:367-372: read_from_client on the ready node under the cursor
ProcRead ==
    /\ pc = "proc"
    /\ LET node == clients[cur]
           c == fdtab[node.sock_fd]
       IN \E rd \in (IF node.inbuf >= BUF_SIZE THEN {ReadErr} ELSE ReadAnswers(node)) :
            LET r == read_from_socket(node.buf, node.inbuf, rd)
                took == IF node.inbuf >= BUF_SIZE THEN 0 ELSE Len(rd.data)
            IN /\ clients' = [clients EXCEPT ![cur] =
                                 [sock_fd |-> node.sock_fd, inbuf |-> r.inbuf, buf |-> r.buf]]
               /\ client_closed' = (IF r.ret = -1 THEN 1 ELSE r.ret)
               /\ inq' = (IF c # 0
                          THEN [inq EXCEPT ![c] = SubSeq(inq[c], took + 1, Len(inq[c]))]
                          ELSE inq)
               /\ faults' = (IF c # 0 /\ node.inbuf < BUF_SIZE /\ rd.err
                             THEN faults + 1 ELSE faults)
    /\ pc' = "frames"
    /\ UNCHANGED <<codecVars, cliVars, cmdVars, wrVars, wireVars, client_id, client_count, exit_status, all_fds, listen_fds,
                   max_fd, cur, dest_c, write_buf, fdtab, peer_st, out, fin, ctl,
                   ctl_data, hs, fr, bad_close, ctl_closes, listen_closes>>

HasMessage ==
    /\ client_closed = 0
    /\ get_message(clients[cur].buf, clients[cur].inbuf).ret = 0

\* server.c:376 and :404-409: no (further) complete message, or the read did
\* not return 0.  A closed client is removed and the cursor stays on its
\* node; otherwise the cursor moves on.
FramesEnd ==
    /\ pc = "frames"
    /\ ~HasMessage
    /\ IF client_closed = 1
       THEN LET rm == _remove_client(client_count, clients[cur].sock_fd, all_fds)
            IN /\ client_count' = rm.client_count
               /\ all_fds' = rm.all_fds
               /\ CloseFds(<<rm.close>>)
               /\ pc' = "proc"
               /\ fr' = NoFrame
               /\ UNCHANGED <<cur, listen_fds>>
       ELSE /\ CursorTo(cur + 1, clients, listen_fds, all_fds)
            /\ UNCHANGED <<client_count, all_fds>>
            /\ NoClose
    /\ TurnOver
    /\ UNCHANGED <<codecVars, cliVars, cmdVars, wrVars, client_id, exit_status, clients, max_fd, ctl, ctl_data,
                   faults, hs, ctl_closes, listen_closes>>

\* server.c:376-389: the message is "\connected": _server_commands replies to
\* the node under the cursor, a reply that returns 2 removes it; break.
\* (msg, write_buf and data_len are bound with \E over a one-element set: each
\* is computed once.)
FramesCommand ==
    /\ pc = "frames"
    /\ HasMessage
    /\ \E node \in {clients[cur]} :
       \E g \in {get_message(node.buf, node.inbuf)} :
       \E wb \in {FrameWriteBuf(g.dst)} :
       \E data_len \in {Strlen(wb)} :
       \E txt \in {ReplyText(client_count)} :
          /\ IsConnectedCmd(g.dst, data_len)
          /\ \E wr \in WriteAnswers(node.sock_fd) :
               LET w == write_buf_to_client(txt, Len(txt), wr)
                   rm == _remove_client(client_count, node.sock_fd, all_fds)
               IN /\ clients' = [clients EXCEPT ![cur] =
                                    [sock_fd |-> node.sock_fd, inbuf |-> g.inbuf,
                                     buf |-> ValidBytes(g.src, g.inbuf)]]
                  /\ write_buf' = wb
                  /\ faults' = (IF IsFault(node.sock_fd, wr) THEN faults + 1 ELSE faults)
                  /\ fr' = [kind |-> "query", node |-> cur, conn |-> fdtab[node.sock_fd],
                            msg |-> g.dst, shown |-> <<>>,
                            writes |-> <<[node |-> cur, fd |-> node.sock_fd,
                                          conn |-> fdtab[node.sock_fd], wire |-> w.wire,
                                          sent |-> w.sent, ret |-> w.ret]>>,
                            done |-> TRUE, live |-> Cardinality(Live),
                            count |-> client_count]
                  /\ IF w.ret = 2
                     THEN /\ client_count' = rm.client_count
                          /\ all_fds' = rm.all_fds
                          /\ CloseFdsFrom(<<rm.close>>, TornAfter(fdtab[node.sock_fd], w))
                     ELSE /\ UNCHANGED <<client_count, all_fds>>
                          /\ NoCloseFrom(TornAfter(fdtab[node.sock_fd], w))
    /\ pc' = "after"
    /\ UNCHANGED <<codecVars, cliVars, cmdVars, wrVars, client_id, exit_status, listen_fds, max_fd, cur, dest_c,
                   client_closed, ctl, ctl_data, hs, ctl_closes, listen_closes>>

\* server.c:404-409 after the break: the read had returned 0, the cursor
\* moves on
AfterCommand ==
    /\ pc = "after"
    /\ CursorTo(cur + 1, clients, listen_fds, all_fds)
    /\ TurnOver
    /\ UNCHANGED <<codecVars, cliVars, cmdVars, wrVars, wireVars, client_id, client_count, exit_status, clients, all_fds,
                   max_fd, envVars, faults, hs, bad_close, ctl_closes, listen_closes>>

\* server.c:394: dest_c = clients, the cursor of the pass
BroadcastStart(cursor) == cursor

\* server.c:376-394: any other message is shown and the broadcast starts
FramesMessage ==
    /\ pc = "frames"
    /\ HasMessage
    /\ \E node \in {clients[cur]} :
       \E g \in {get_message(node.buf, node.inbuf)} :
       \E wb \in {FrameWriteBuf(g.dst)} :
       \E data_len \in {Strlen(wb)} :
          /\ ~IsConnectedCmd(g.dst, data_len)
          /\ clients' = [clients EXCEPT ![cur] =
                            [sock_fd |-> node.sock_fd, inbuf |-> g.inbuf,
                                     buf |-> ValidBytes(g.src, g.inbuf)]]
          /\ write_buf' = wb
          /\ fr' = [kind |-> "bcast", node |-> cur, conn |-> fdtab[node.sock_fd],
                    msg |-> g.dst, shown |-> wb, writes |-> <<>>, done |-> FALSE,
                    live |-> Cardinality(Live), count |-> client_count]
    /\ dest_c' = BroadcastStart(cur)
    /\ pc' = "bcast"
    /\ UNCHANGED <<codecVars, cliVars, cmdVars, wrVars, wireVars, client_id, client_count, exit_status, all_fds, listen_fds,
                   max_fd, cur, client_closed, envVars, faults, hs, bad_close,
                   ctl_closes, listen_closes>>

\* mutant: the broadcast loop is left after its first write
BcastEnd_early ==
    /\ pc = "bcast"
    /\ fr.writes # <<>>
    /\ fr' = [fr EXCEPT !.done = TRUE]
    /\ pc' = "frames"
    /\ UNCHANGED <<codecVars, cliVars, cmdVars, wrVars, wireVars, client_id, client_count, exit_status, clients, all_fds,
                   listen_fds, max_fd, cur, dest_c, client_closed, write_buf, envVars,
                   faults, hs, bad_close, ctl_closes, listen_closes>>

\* server.c:395, dest_c is NULL: back to the message loop
BcastEnd ==
    /\ pc = "bcast"
    /\ dest_c > Len(clients)
    /\ fr' = [fr EXCEPT !.done = TRUE]
    /\ pc' = "frames"
    /\ UNCHANGED <<codecVars, cliVars, cmdVars, wrVars, wireVars, client_id, client_count, exit_status, clients, all_fds,
                   listen_fds, max_fd, cur, dest_c, client_closed, write_buf, envVars,
                   faults, hs, bad_close, ctl_closes, listen_closes>>

\* server.c:396-400: the message is written to dest_c; on 2 the destination
\* is removed and the loop continues on the same node, otherwise it moves on
BcastWrite ==
    /\ pc = "bcast"
    /\ dest_c <= Len(clients)
    /\ LET dest == clients[dest_c]
       IN \E wr \in WriteAnswers(dest.sock_fd) :
            LET w == write_buf_to_client(write_buf, Strlen(write_buf), wr)
                rm == _remove_client(client_count, dest.sock_fd, all_fds)
            IN /\ faults' = (IF IsFault(dest.sock_fd, wr) THEN faults + 1 ELSE faults)
               /\ fr' = [fr EXCEPT !.writes =
                            Append(@, [node |-> dest_c, fd |-> dest.sock_fd,
                                       conn |-> fdtab[dest.sock_fd], wire |-> w.wire,
                                       sent |-> w.sent, ret |-> w.ret])]
               /\ IF w.ret = 2
                  THEN /\ client_count' = rm.client_count
                       /\ all_fds' = rm.all_fds
                       /\ CloseFdsFrom(<<rm.close>>, TornAfter(fdtab[dest.sock_fd], w))
                       /\ dest_c' = dest_c
                  ELSE /\ UNCHANGED <<client_count, all_fds>>
                       /\ NoCloseFrom(TornAfter(fdtab[dest.sock_fd], w))
                       /\ dest_c' = dest_c + 1
    /\ UNCHANGED <<codecVars, cliVars, cmdVars, wrVars, pc, client_id, exit_status, clients,
                   listen_fds, max_fd,
                   cur, client_closed, write_buf, ctl, ctl_data, hs, ctl_closes,
                   listen_closes>>

ServerNext ==
    \/ StartUsageError \/ StartSignalFail \/ StartSetupFail \/ StartOk
    \/ Select \/ SelectEINTR \/ SelectRetry \/ SelectFail
    \/ AcceptError \/ AcceptNoMem \/ AcceptOk
    \/ ControlByte \/ ControlEof \/ ControlError
    \/ ProcRead
    \/ FramesEnd \/ FramesCommand \/ FramesMessage \/ AfterCommand
    \/ BcastEnd \/ BcastWrite
    \/ CleanExit

Next == ServerNext \/ EnvNext

Spec == Init /\ [][Next]_vars

\* the server runs whenever it can: it is one thread that blocks only in
\* select(), read() and write()
FairSpec == Spec /\ WF_vars(ServerNext)

SpecCodec == InitCodec /\ [][NextCodec]_vars

(***************************************************************************)
(* client.c: the pure parts                                                *)
(***************************************************************************)
\* the literal "client" of the prefix format "client%d:"
CLIENT == <<99, 108, 105, 101, 110, 116>>
SPACE == 32

\* mutant: the prefix leaves the id out
ClientPrefix_no_id(id) == CLIENT \o <<COLON>>

\* client.c:73, 111: snprintf(write_buf, BUF_SIZE, "client%d:", client_id)
ClientPrefix(id) == CLIENT \o Decimal(id) \o <<COLON>>

IsDigit(b) == b >= DIGIT0 /\ b <= DIGIT0 + 9

\* the digits strtol(str, NULL, 10) converts: the longest run at the start
LeadingDigits(str) ==
    LET stop == {i \in 1..Len(str) : ~IsDigit(str[i])}
    IN SubSeq(str, 1, IF stop = {} THEN Len(str) ELSE Min(stop) - 1)

RECURSIVE DigitsValue(_)
DigitsValue(d) ==
    IF d = <<>> THEN 0
    ELSE 10 * DigitsValue(SubSeq(d, 1, Len(d) - 1)) + (d[Len(d)] - DIGIT0)

\* a long holds every number of up to LongDigits digits; the model's numbers
\* are either that short or longer than any long
LongDigits == 9

\* strtol(msg, NULL, 10) and errno after it.  Without digits the value is 0;
\* einval says whether the C library reports that case in errno (EINVAL,
\* which the C standard allows and glibc does not do).
Strtol(str, einval) ==
    LET d == LeadingDigits(str)
    IN IF d = <<>> THEN [val |-> 0, errno |-> IF einval THEN 1 ELSE 0]
       ELSE IF Len(d) > LongDigits THEN [val |-> -1, errno |-> 1]
       ELSE [val |-> DigitsValue(d), errno |-> 0]

\* fgets(msg_buf, size, stdin): at most size - 1 bytes, through the first
\* newline; eof: the read ran into the end of the input
FGets(size, stdin) ==
    LET lim == IF Len(stdin) < size - 1 THEN Len(stdin) ELSE size - 1
        nl == {i \in 1..lim : stdin[i] = LF}
        cnt == IF nl = {} THEN lim ELSE Min(nl)
    IN [got |-> SubSeq(stdin, 1, cnt),
        rest |-> SubSeq(stdin, cnt + 1, Len(stdin)),
        eof |-> nl = {} /\ cnt < size - 1]

\* strncat(dest, src, n) in the fixed buffer dest; src is a C string
Strncat(dest, src, n) ==
    LET m == IF Strlen(src) < n THEN Strlen(src) ELSE n
    IN StoreAt(dest, Strlen(dest), SubSeq(src, 1, m) \o <<NUL>>)

\* client.c:137-161 after a successful fgets: the frame made of write_buf
\* (wbuf, holding the prefix) and the line msg_buf.  unget is the byte pushed back
\* to stdin (-1: none).
_read_user_input(wbuf, prepend_len, msg_buf) ==
    LET wb == Strncat(wbuf, msg_buf, (MAX_USER_MSG + 2) - prepend_len)
        len == Strlen(wb)
        nl == {i \in 1..len : wb[i] = LF}
    IN IF nl # {}
       THEN [write_len |-> (IF len < MAX_USER_MSG + 1 THEN len ELSE MAX_USER_MSG + 1) + 1,
             write_buf |-> StoreAt(wb, Min(nl) - 1, <<CR, LF>>),
             unget |-> -1]
       ELSE [write_len |-> MAX_USER_MSG + 2,
             write_buf |-> StoreAt(wb, MAX_USER_MSG, <<CR, LF>>),
             unget |-> wb[MAX_USER_MSG + 1]]

\* client.c:359-364: the loop of send_msg over tokens[3..] (TLA+ index i + 1)
RECURSIVE SendMsgLoop(_, _, _, _)
SendMsgLoop(tokens, i, wbuf, append_total) ==
    IF i + 1 > Len(tokens) \/ BUF_SIZE - append_total <= 0 THEN wbuf
    ELSE SendMsgLoop(tokens, i + 1,
                     Strncat(Strncat(wbuf, tokens[i + 1], BUF_SIZE - append_total),
                             <<SPACE>>, 2),
                     append_total + Len(tokens[i + 1]) + 1)

\* client.c:357-366: the frame send_msg writes and its length
SendMsgFrame(tokens) ==
    LET wb == Strncat(SendMsgLoop(tokens, 3, Rep(NUL, BUF_SIZE), 0), <<CR, LF>>, 3)
    IN [write_buf |-> wb, msg_len |-> Strlen(wb)]

(***************************************************************************)
(* client.c: the client program and its surroundings                       *)
(***************************************************************************)
\* the frames written over a run are counted up to MaxFrames
MaxFrames == 3
\* input lines are 0 or 1 bytes long, or within LineSlack bytes of the longest
\* line that fits one frame behind the prefix
LineSlack == 1

Line(n) == Rep(ByteA, n) \o <<LF>>
LineFit == MAX_USER_MSG - Len(ClientPrefix(1))
LineLens == {0, 1} \cup ((LineFit - LineSlack)..(LineFit + LineSlack))

\* what the user types before closing stdin: nothing, one line, a line
\* without its newline, two lines
StdinPlans ==
    {<<>>, <<ByteA>>, Line(1) \o Line(1)} \cup {Line(n) : n \in LineLens}

\* what the server sends before it closes: nothing, an id, an id and a
\* message (as the server's broadcast writes it), a frame that is not a
\* number, a number no long holds, an empty frame
IdFrame == Decimal(1) \o <<CR, LF>>
NetPlans ==
    {<<>>,
     IdFrame,
     IdFrame \o ClientPrefix(2) \o <<ByteA, CR, LF, CR, LF>>,
     <<ByteA, CR, LF>>,
     Rep(DIGIT0 + 9, LongDigits + 1) \o <<CR, LF>>,
     <<CR, LF>>}

\* tokens[0..]: the command, the port, the host, the words after them
Word(n) == Rep(ByteA, n)
PortTok == <<DIGIT0 + 8, DIGIT0>>
HugeTok == Rep(DIGIT0 + 9, LongDigits + 1)
CmdLines ==
    {<<Word(1)>>, <<Word(1), PortTok>>, <<Word(1), HugeTok, Word(1)>>,
     <<Word(1), PortTok, Word(1)>>,
     <<Word(1), PortTok, Word(1), Word(2)>>,
     <<Word(1), PortTok, Word(1), Word(2), Word(1)>>}

\* the stack bytes of write_buf and s.buf before they are written: any
\* content, sampled by two fills
StackFills == {Rep(NUL, BUF_SIZE), Rep(LF, BUF_SIZE)}

\* client.c:45-55 and 334-349: the argument checks of client() and of
\* send_msg() pass
ClientArgsOk(tokens) == Len(tokens) = 3 /\ Len(LeadingDigits(tokens[2])) <= LongDigits
SendArgsOk(tokens) == Len(tokens) >= 3 /\ Len(LeadingDigits(tokens[2])) <= LongDigits

\* the state when client() or send_msg() is called
InitClient ==
    /\ CodecIdle
    /\ ServerIdle
    /\ CommandsIdle /\ WriterIdle
    /\ c_pc \in {"start", "send_msg"}
    /\ c_tokens \in CmdLines
    /\ c_stdin \in StdinPlans
    /\ c_plan \in NetPlans
    /\ c_wbuf \in StackFills
    /\ c_buf = c_wbuf
    /\ (c_pc = "send_msg" \/ ~ClientArgsOk(c_tokens)) =>
            c_stdin = <<>> /\ c_plan = <<>> /\ c_wbuf = Rep(NUL, BUF_SIZE)
    /\ c_id = 0 /\ c_inbuf = 0 /\ c_ready = {}
    /\ c_ret = 9 /\ c_typed = FALSE /\ c_eof = FALSE
    /\ c_net = <<>> /\ c_netfin = FALSE
    /\ c_closes = 0 /\ c_first = <<>> /\ c_entered = FALSE
    /\ c_last = <<>> /\ c_nsent = 0 /\ c_shown = <<>>
    /\ c_gone = FALSE /\ c_wild = FALSE /\ c_faults = 0
    /\ c_line = c_stdin /\ c_echo = <<>>

\* what a step of the client program leaves alone
othVars == <<codecVars, cmdVars, wrVars, wireVars, srvVars, envVars, histVars>>

cliEnv == <<c_stdin, c_typed, c_eof, c_plan, c_net, c_netfin>>
cliHist == <<c_first, c_entered, c_last, c_nsent, c_shown, c_gone, c_wild, c_line,
            c_echo>>

\* return ret, after n more close(s.sock_fd) calls
ClientReturns(ret, n) ==
    /\ c_pc' = "done"
    /\ c_ret' = ret
    /\ c_closes' = c_closes + n

\* client.c:292-324: socket() or connect() may fail
ClientSetups ==
    {"ok"} \cup (IF c_faults < MaxFaults THEN {"socket", "connect"} ELSE {})

\* client.c:45-55: _verify_user_input or _parse_port_num fails
ClientUsageError ==
    /\ c_pc = "start"
    /\ ~ClientArgsOk(c_tokens)
    /\ ClientReturns(-1, 0)
    /\ UNCHANGED <<othVars, c_tokens, c_id, c_wbuf, c_buf, c_inbuf, c_ready, cliEnv,
                   cliHist, c_faults>>

\* client.c:57-60: _client_setup fails
ClientSetupFail ==
    /\ c_pc = "start"
    /\ ClientArgsOk(c_tokens)
    /\ \E how \in ClientSetups \ {"ok"} :
          ClientReturns(-1, IF how = "connect" THEN 1 ELSE 0)
    /\ c_faults' = c_faults + 1
    /\ UNCHANGED <<othVars, c_tokens, c_id, c_wbuf, c_buf, c_inbuf, c_ready, cliEnv, cliHist>>

\* client.c:57-65: connected; next is _get_client_id
ClientConnected ==
    /\ c_pc = "start"
    /\ ClientArgsOk(c_tokens)
    /\ c_pc' = "hs_read"
    /\ c_inbuf' = 0
    /\ UNCHANGED <<othVars, c_tokens, c_id, c_wbuf, c_buf, c_ready, c_ret, cliEnv,
                   c_closes, cliHist, c_faults>>

\* the transport's answers to one read() on the client's socket
ClientReadAnswers ==
    LET room == ReadRoom(c_inbuf)
    IN (IF c_net # <<>>
        THEN {ReadData(SubSeq(c_net, 1, IF Len(c_net) < room THEN Len(c_net) ELSE room))}
        ELSE IF c_netfin THEN {ReadData(<<>>)} ELSE {})
       \cup (IF c_faults < MaxFaults THEN {ReadErr} ELSE {})

\* one read_from_socket call on s: the buffer, the transport and the fault count
ClientRead(rd, r) ==
    /\ c_buf' = r.buf
    /\ c_inbuf' = r.inbuf
    /\ c_net' = SubSeq(c_net, (r.inbuf - c_inbuf) + 1, Len(c_net))
    /\ c_faults' = IF rd.err THEN c_faults + 1 ELSE c_faults

\* client.c:175-186 under _get_client_id (218-227) and client():65-69
ClientHsRead ==
    /\ c_pc = "hs_read"
    /\ \E rd \in ClientReadAnswers :
       \E r \in {read_from_socket(c_buf, c_inbuf, rd)} :
          /\ ClientRead(rd, r)
          /\ IF r.ret = 0
             THEN c_pc' = "hs_get" /\ UNCHANGED <<c_ret, c_closes>>
             ELSE IF r.ret = 2
             THEN UNCHANGED <<c_pc, c_ret, c_closes>>
             ELSE ClientReturns(IF r.ret = 1 THEN 0 ELSE -1, 1)
    /\ UNCHANGED <<othVars, c_tokens, c_id, c_wbuf, c_ready, c_stdin, c_typed, c_eof,
                   c_plan, c_netfin, cliHist>>

\* client.c:188-205: the frame get_message hands out, if the loop keeps it
\* (kept: longer than 2 bytes; msg: without its last two bytes)
RecvFrame(g) ==
    LET msg_len == Strlen(g.dst)
    IN [kept |-> msg_len > 2, msg |-> SubSeq(g.dst, 1, msg_len - 2)]

\* client.c:188-205 under _get_client_id (229-239) and client():65-73
ClientHsGet ==
    /\ c_pc = "hs_get"
    /\ \E g \in {get_message(c_buf, c_inbuf)} :
          /\ g.ret = 0
          /\ c_buf' = g.src
          /\ c_inbuf' = g.inbuf
          /\ IF ~RecvFrame(g).kept
             THEN UNCHANGED <<c_pc, c_id, c_wbuf, c_ret, c_closes, c_first, c_entered>>
             ELSE \E einval \in BOOLEAN :
                  \E n \in {Strtol(RecvFrame(g).msg, einval)} :
                     /\ c_first' = RecvFrame(g).msg
                     /\ IF n.errno # 0
                        THEN /\ ClientReturns(-1, 1)
                             /\ UNCHANGED <<c_id, c_wbuf, c_entered>>
                        ELSE /\ c_id' = n.val
                             /\ c_wbuf' = StoreAt(c_wbuf, 0, ClientPrefix(n.val) \o <<NUL>>)
                             /\ c_entered' = TRUE
                             /\ c_pc' = "select"
                             /\ UNCHANGED <<c_ret, c_closes>>
    /\ UNCHANGED <<othVars, c_tokens, c_ready, cliEnv, c_last, c_nsent, c_shown, c_gone,
                   c_wild, c_faults, c_line, c_echo>>

\* client.c:188-189: with no whole frame in the buffer get_message fails and
\* the loop `while (msg_len <= 2)` runs on without a change
ClientGetSpin ==
    /\ c_pc \in {"hs_get", "recv_get"}
    /\ get_message(c_buf, c_inbuf).ret # 0
    /\ UNCHANGED vars

\* client.c:79-87 and 124-125: the loop test and select()
ClientSelect ==
    /\ c_pc = "select"
    /\ IF c_eof
       THEN ClientReturns(0, 1) /\ UNCHANGED c_ready
       ELSE IF c_closes > 0
       THEN ClientReturns(-1, 1) /\ UNCHANGED c_ready
       ELSE /\ c_typed \/ c_net # <<>> \/ c_netfin
            /\ c_ready' = (IF c_typed THEN {"stdin"} ELSE {})
                            \cup (IF c_net # <<>> \/ c_netfin THEN {"sock"} ELSE {})
            /\ c_pc' = IF c_typed THEN "input" ELSE "recv_read"
            /\ UNCHANGED <<c_ret, c_closes>>
    /\ UNCHANGED <<othVars, c_tokens, c_id, c_wbuf, c_buf, c_inbuf, cliEnv, cliHist, c_faults>>

\* client.c:83-87: select() fails on the open socket
ClientSelectFail ==
    /\ c_pc = "select"
    /\ ~c_eof /\ c_closes = 0
    /\ c_faults < MaxFaults
    /\ c_faults' = c_faults + 1
    /\ ClientReturns(-1, 1)
    /\ UNCHANGED <<othVars, c_tokens, c_id, c_wbuf, c_buf, c_inbuf, c_ready, cliEnv, cliHist>>

\* the transport's answers to the write() calls of one write_to_socket
ClientWriteAnswers ==
    {<<>>} \cup (IF c_faults < MaxFaults THEN {<<-1>>, <<0>>} ELSE {})

CountFrame == IF c_nsent < MaxFrames THEN c_nsent + 1 ELSE c_nsent

\* where the pass goes after the stdin branch
AfterInput == IF "sock" \in c_ready THEN "recv_read" ELSE "select"

\* client.c:90-112: stdin is ready: _read_user_input, write_to_socket and
\* the reset of write_buf
ClientInput ==
    /\ c_pc = "input"
    /\ \E prepend_len \in {Len(ClientPrefix(c_id))} :
       \E f \in {FGets((MAX_USER_MSG + 2) - prepend_len, c_stdin)} :
          IF f.got = <<>>
          THEN /\ ClientReturns(0, 1)
               /\ c_stdin' = f.rest
               /\ c_eof' = TRUE
               /\ UNCHANGED <<c_wbuf, c_last, c_nsent, c_faults, c_echo>>
          ELSE \E r \in {_read_user_input(c_wbuf, prepend_len, f.got)} :
               \E wr \in ClientWriteAnswers :
               \E w \in {write_to_socket(r.write_buf, r.write_len, wr)} :
                  /\ c_stdin' = IF r.unget = -1 THEN f.rest ELSE <<r.unget>> \o f.rest
                  /\ c_eof' = IF r.unget = -1 THEN f.eof ELSE FALSE
                  /\ c_last' = w.wire
                  /\ c_nsent' = CountFrame
                  /\ c_echo' = IF c_nsent < MaxFrames
                               THEN c_echo \o SubSeq(w.wire, prepend_len + 1, Len(w.wire) - 2)
                               ELSE c_echo
                  /\ c_faults' = IF wr = <<>> THEN c_faults ELSE c_faults + 1
                  /\ IF w.ret = 0
                     THEN /\ c_wbuf' = StoreAt(r.write_buf, 0, ClientPrefix(c_id) \o <<NUL>>)
                          /\ c_pc' = AfterInput
                          /\ UNCHANGED <<c_ret, c_closes>>
                     ELSE /\ ClientReturns(IF w.ret = 2 THEN 0 ELSE -1, 1)
                          /\ c_wbuf' = r.write_buf
    /\ UNCHANGED <<othVars, c_tokens, c_id, c_buf, c_inbuf, c_ready, c_typed, c_plan,
                   c_net, c_netfin, c_first, c_entered, c_shown, c_gone, c_wild,
                   c_line>>

\* client.c:115-120 with _recieve_message:175-186.  The return value of
\* _recieve_message is dropped: when it returns without a frame, msg was never
\* set and strncat, display_message and free work on whatever the pointer
\* holds; the process either dies there or goes on to the loop test.
ClientRecvRead ==
    /\ c_pc = "recv_read"
    /\ \E rd \in ClientReadAnswers :
       \E r \in {read_from_socket(c_buf, c_inbuf, rd)} :
          /\ ClientRead(rd, r)
          /\ IF r.ret = 0
             THEN c_pc' = "recv_get" /\ UNCHANGED <<c_closes, c_gone, c_wild>>
             ELSE IF r.ret = 2
             THEN UNCHANGED <<c_pc, c_closes, c_gone, c_wild>>
             ELSE /\ c_closes' = c_closes + 1
                  /\ c_gone' = (c_gone \/ r.ret = 1)
                  /\ c_wild' = TRUE
                  /\ c_pc' \in {"crashed", "select"}
    /\ UNCHANGED <<othVars, c_tokens, c_id, c_wbuf, c_ready, c_ret, c_stdin, c_typed,
                   c_eof, c_plan, c_netfin, c_first, c_entered, c_last, c_nsent,
                   c_shown, c_line, c_echo>>

\* client.c:188-205 and 118-120: the frame is taken out and displayed
ClientRecvGet ==
    /\ c_pc = "recv_get"
    /\ \E g \in {get_message(c_buf, c_inbuf)} :
          /\ g.ret = 0
          /\ c_buf' = g.src
          /\ c_inbuf' = g.inbuf
          /\ IF ~RecvFrame(g).kept
             THEN UNCHANGED <<c_pc, c_shown>>
             ELSE /\ c_shown' = RecvFrame(g).msg \o <<LF>>
                  /\ c_pc' = "select"
    /\ UNCHANGED <<othVars, c_tokens, c_id, c_wbuf, c_ready, c_ret, cliEnv, c_closes,
                   c_first, c_entered, c_last, c_nsent, c_gone, c_wild, c_faults,
                   c_line, c_echo>>

\* client.c:334-349: an argument of send_msg is missing or the port is out of range
SendMsgUsageError ==
    /\ c_pc = "send_msg"
    /\ ~SendArgsOk(c_tokens)
    /\ ClientReturns(-1, 0)
    /\ UNCHANGED <<othVars, c_tokens, c_id, c_wbuf, c_buf, c_inbuf, c_ready, cliEnv,
                   cliHist, c_faults>>

\* client.c:351-354: _client_setup fails
SendMsgSetupFail ==
    /\ c_pc = "send_msg"
    /\ SendArgsOk(c_tokens)
    /\ \E how \in ClientSetups \ {"ok"} :
          ClientReturns(-1, IF how = "connect" THEN 1 ELSE 0)
    /\ c_faults' = c_faults + 1
    /\ UNCHANGED <<othVars, c_tokens, c_id, c_wbuf, c_buf, c_inbuf, c_ready, cliEnv, cliHist>>

\* client.c:356-382: the frame is built and written, the socket closed
SendMsgSend ==
    /\ c_pc = "send_msg"
    /\ SendArgsOk(c_tokens)
    /\ \E fm \in {SendMsgFrame(c_tokens)} :
       \E wr \in ClientWriteAnswers :
       \E w \in {write_to_socket(fm.write_buf, fm.msg_len, wr)} :
          /\ c_wbuf' = fm.write_buf
          /\ c_last' = w.wire
          /\ c_nsent' = CountFrame
          /\ c_faults' = IF wr = <<>> THEN c_faults ELSE c_faults + 1
          /\ ClientReturns(IF w.ret = 0 THEN 0 ELSE -1, 1)
    /\ UNCHANGED <<othVars, c_tokens, c_id, c_buf, c_inbuf, c_ready, cliEnv, c_first,
                   c_entered, c_shown, c_gone, c_wild, c_line, c_echo>>

\* The user and the server move while the client waits in select() or is
\* blocked in read().
ClientWaits == c_pc \in {"hs_read", "select", "recv_read"}

\* the user types the input and closes stdin
UserTypes ==
    /\ ClientWaits
    /\ ~c_typed
    /\ c_typed' = TRUE
    /\ UNCHANGED <<othVars, c_pc, c_tokens, c_id, c_wbuf, c_buf, c_inbuf, c_ready, c_ret,
                   c_stdin, c_eof, c_plan, c_net, c_netfin, c_closes, cliHist,
                   c_faults>>

\* the server's next bytes arrive
ServerSends ==
    /\ ClientWaits
    /\ c_plan # <<>>
    /\ \E k \in SendSizes(Len(c_plan)) :
          /\ c_net' = c_net \o SubSeq(c_plan, 1, k)
          /\ c_plan' = SubSeq(c_plan, k + 1, Len(c_plan))
    /\ UNCHANGED <<othVars, c_pc, c_tokens, c_id, c_wbuf, c_buf, c_inbuf, c_ready, c_ret,
                   c_stdin, c_typed, c_eof, c_netfin, c_closes, cliHist, c_faults>>

\* the server closes the connection
ServerCloses ==
    /\ ClientWaits
    /\ c_plan = <<>>
    /\ ~c_netfin
    /\ c_netfin' = TRUE
    /\ UNCHANGED <<othVars, c_pc, c_tokens, c_id, c_wbuf, c_buf, c_inbuf, c_ready, c_ret,
                   c_stdin, c_typed, c_eof, c_plan, c_net, c_closes, cliHist,
                   c_faults>>

ClientStep ==
    \/ ClientUsageError \/ ClientSetupFail \/ ClientConnected
    \/ ClientHsRead \/ ClientHsGet \/ ClientGetSpin
    \/ ClientSelect \/ ClientSelectFail \/ ClientInput
    \/ ClientRecvRead \/ ClientRecvGet
    \/ SendMsgUsageError \/ SendMsgSetupFail \/ SendMsgSend
    \/ UserTypes \/ ServerSends \/ ServerCloses

NextClient == ClientStep

SpecClient == InitClient /\ [][NextClient]_vars

(***************************************************************************)
(* Claims on the codec (checked under SpecCodec)                           *)
(***************************************************************************)
k_delivered == Len(k_orig) - Len(k_stream)

\* the stream is one frame: a payload of at most MAX_USER_MSG bytes with no
\* CRLF inside, then CRLF
IsOneFrame(s) ==
    /\ Len(s) >= 2 /\ Len(s) - 2 <= MAX_USER_MSG
    /\ s[Len(s) - 1] = CR /\ s[Len(s)] = LF
    /\ \A i \in 1..(Len(s) - 2) : ~(s[i] = CR /\ s[i + 1] = LF)

\* C4: a frame of n <= 128 payload bytes plus CRLF, delivered in chunks into an
\* empty buffer: every read that takes bytes before the final byte returns 2
\* (Partial), the read that takes the final byte returns 0 (FrameReady), 0 is
\* returned exactly once, and get_message then hands out the whole frame
\* through its CRLF and leaves inbuf at 0.
C4_ChunkedFrame ==
    IsOneFrame(k_orig) =>
        /\ (k_took /\ k_delivered < Len(k_orig) => k_ret = 2)
        /\ (k_took /\ k_delivered = Len(k_orig) => k_ret = 0)
        /\ k_nready = (IF k_delivered = Len(k_orig) THEN 1 ELSE 0)
        /\ (k_gret = 0 => k_msg = k_orig /\ k_inbuf = 0 /\ k_nready = 1)

\* C4 witness: a frame of MAX_USER_MSG payload bytes was reported once and
\* extracted whole
C4_Witness ==
    /\ IsOneFrame(k_orig) /\ Len(k_orig) = MAX_USER_MSG + 2
    /\ k_ret = 0 /\ k_gret = 0 /\ k_msg = k_orig /\ k_inbuf = 0

\* C5: a read that leaves BUF_SIZE valid bytes with no CRLF among them returns
\* -1 (never 0 or 2), and the buffer holds exactly the first BUF_SIZE bytes
\* that were delivered, none dropped and none stored past the buffer.
C5_FullBufferIsError ==
    (k_took /\ k_inbuf >= BUF_SIZE /\ find_network_newline(k_buf, k_inbuf) = -1) =>
        /\ k_ret = -1
        /\ k_inbuf = BUF_SIZE /\ Len(k_buf) = BUF_SIZE
        /\ k_buf = SubSeq(k_orig, 1, BUF_SIZE)
        /\ k_delivered = BUF_SIZE

\* C5 witness: the buffer was filled to capacity without a terminator
C5_Witness ==
    /\ k_took /\ k_inbuf = BUF_SIZE /\ k_ret = -1
    /\ find_network_newline(k_buf, k_inbuf) = -1

(***************************************************************************)
(* Claims on the server (checked under Spec, C8 under FairSpec)            *)
(***************************************************************************)
\* node i of the client list holds a descriptor that is open
NodeOpen(i) == fdtab[clients[i].sock_fd] # 0

\* the broadcast of the current frame has written (or tried to write) node i
Visited(i) == \E k \in 1..Len(fr.writes) : fr.writes[k].node = i

BroadcastDone == fr.kind = "bcast" /\ fr.done

\* C1: a frame that is not a status query is, when all its writes succeed,
\* written to every connection of the registry, the one it arrived on
\* included.
C1_BroadcastReachesAll ==
    (BroadcastDone /\ \A k \in 1..Len(fr.writes) : fr.writes[k].ret = 0) =>
        \A i \in 1..Len(clients) : NodeOpen(i) => Visited(i)

\* C2: what the server shows to the operator and what it writes to each
\* broadcast destination are exactly the bytes of the received frame.
C2_VerbatimFrame ==
    fr.kind = "bcast" =>
        /\ fr.shown = fr.msg
        /\ \A k \in 1..Len(fr.writes) : fr.writes[k].wire = fr.msg

\* the bytes w are a payload with no CRLF inside, then one CRLF
OneTerminator(w) == find_network_newline(w, Len(w)) = Len(w)

\* C3: every frame the server writes (id handshake, status reply, broadcast)
\* carries exactly one CRLF: a payload without CRLF, then one CRLF.
C3_OneTerminator ==
    /\ \A k \in 1..Len(hs) : OneTerminator(hs[k].wire)
    /\ \A k \in 1..Len(fr.writes) : OneTerminator(fr.writes[k].wire)

\* C6: a status query that arrives while N client descriptors are open is
\* answered with the decimal text of N, written once, to the connection the
\* query arrived on; no other write is made for the frame and the frame is
\* not shown.
C6_QueryRepliesToRequester ==
    fr.kind = "query" =>
        /\ Len(fr.writes) = 1
        /\ fr.writes[1].node = fr.node
        /\ fr.writes[1].conn = fr.conn
        /\ fr.writes[1].wire = Decimal(fr.live) \o <<CR, LF>>
        /\ fr.shown = <<>>
        /\ fr.msg = Query

\* C6 witness: a query was answered while two clients were connected
C6_Witness ==
    /\ fr.kind = "query" /\ fr.live = 2
    /\ Len(fr.writes) = 1 /\ fr.writes[1].ret = 0
    /\ fr.writes[1].wire = <<DIGIT0 + 2, CR, LF>>

\* C7: the k-th connection that was accepted into the list is sent the id k,
\* whatever was removed in between.
C7_IdIsAcceptRank ==
    \A k \in 1..Len(hs) : hs[k].wire = Decimal(k) \o <<CR, LF>>

\* C7 witness: the first connection was removed during its handshake, the
\* second was accepted after it and sent its id in full
C7_Witness ==
    /\ Len(hs) = 2
    /\ hs[1].ret = 2 /\ hs[2].ret = 0
    /\ client_count = 1
    /\ hs[2].wire = <<DIGIT0 + 2, CR, LF>>

\* the server has left the loop, every client descriptor is closed, the
\* listening socket and the control descriptor were closed (each once) and it
\* returned 0
ShutDown ==
    /\ pc = "exited"
    /\ exit_status = 0
    /\ Live = {}
    /\ ctl_closes = 1 /\ listen_closes = 1

\* C8: once the owner has closed the control descriptor the server eventually
\* leaves the event loop, closes every client descriptor, the listening
\* socket and the control descriptor, and returns 0 (stated for the runs in
\* which no transport call fails).
C8_ControlCloseShutsDown == (ctl = "closed") ~> (ShutDown \/ faults > 0)

\* C9: whenever the loop waits in select(), a connection is a node of the
\* client list iff its descriptor is watched and open.
C9_RegistryIsWatchSet ==
    pc = "select" =>
        /\ \A i \in 1..Len(clients) :
              clients[i].sock_fd \in all_fds /\ NodeOpen(i)
        /\ \A f \in all_fds \ {ListenFd, CtlFd} :
              \E i \in 1..Len(clients) : clients[i].sock_fd = f

\* C10: a broadcast in which the write to one connection fails still writes
\* the frame to every other connection of the registry.
C10_FailedWriteKeepsBroadcast ==
    (BroadcastDone /\ \E k \in 1..Len(fr.writes) : fr.writes[k].ret # 0) =>
        \A i \in 1..Len(clients) : NodeOpen(i) => Visited(i)

\* C11: a broadcast write that fails, with a write error (1) or a peer
\* disconnect (2), removes its destination: once the broadcast is over the
\* destination is neither watched nor open, so no later broadcast has it.
C11_FailedDestinationRemoved ==
    BroadcastDone =>
        \A k \in 1..Len(fr.writes) :
            fr.writes[k].ret # 0 =>
                /\ fr.writes[k].fd \notin all_fds
                /\ fdtab[fr.writes[k].fd] = 0

\* server() has left the event loop (break, then _clean_exit and return)
LeftLoop == pc \in {"cleanup", "exited"}

\* C12: no fault of one client connection makes server() leave the event
\* loop: server() ends only in its set-up, on a failed select() or on the
\* read of the control descriptor.
C12_ClientFaultKeepsLoop ==
    [][(~LeftLoop /\ LeftLoop') => pc \in {"start", "select", "control"}]_vars

\* C13 (under SpecCodec): a CRLF-terminated frame delivered into an empty
\* buffer is accepted iff its payload is at most MAX_USER_MSG bytes: with up
\* to 128 payload bytes the read that completes it returns 0 and get_message
\* hands it out whole; with more, no read returns 0 and the read that brings
\* the buffer to BUF_SIZE bytes returns -1.
C13_PayloadLimit ==
    OneTerminator(k_orig) =>
        IF Len(k_orig) - 2 <= MAX_USER_MSG
        THEN (k_took /\ k_delivered = Len(k_orig)) =>
                /\ k_ret = 0
                /\ (k_gret = 0 => k_msg = k_orig)
        ELSE /\ k_ret # 0
             /\ (k_took /\ k_delivered >= BUF_SIZE => k_ret = -1)

\* C13 witness: a frame of 129 payload bytes plus CRLF was delivered in full
\* and the read reported an error
C13_Witness ==
    /\ OneTerminator(k_orig) /\ Len(k_orig) = MAX_USER_MSG + 3
    /\ k_took /\ k_delivered = Len(k_orig) /\ k_ret = -1

\* C16: server() returns 0 iff it left the loop because the read of the
\* control descriptor returned zero bytes; a failed read of the control
\* descriptor or a failed select() gives -1; a control read that returns a
\* data byte does not end the loop; the value set at the break is the one
\* returned.
C16_ReturnValue ==
    [][/\ (~LeftLoop /\ LeftLoop') =>
              /\ exit_status' \in {0, -1}
              /\ exit_status' = 0 <=>
                    (pc = "control" /\ ctl_data = 0 /\ ctl = "closed" /\ faults' = faults)
       /\ (pc = "control" /\ faults' > faults) => (LeftLoop' /\ exit_status' = -1)
       /\ (pc = "select" /\ LeftLoop') => exit_status' = -1
       /\ (pc = "control" /\ ctl' = ctl /\ ctl_data = 1 /\ faults' = faults) =>
              (~LeftLoop' /\ exit_status' = exit_status)
       /\ LeftLoop => exit_status' = exit_status]_vars

\* C16 witness: a server that had accepted a client returned 0 after the
\* owner closed the control pipe
C16_Witness ==
    /\ pc = "exited" /\ exit_status = 0 /\ ctl = "closed"
    /\ hs # <<>> /\ faults = 0

\* C17: when server() has returned, by whichever path, close(server_fd) was
\* called, and it is never called twice.
C17_ControlClosedOnce ==
    /\ ctl_closes <= 1
    /\ pc = "exited" => ctl_closes = 1

\* C17 witness: server() returned on a usage error with the control
\* descriptor closed (and no socket ever set up)
C17_Witness ==
    /\ pc = "exited" /\ exit_status = -1 /\ faults = 0 /\ hs = <<>>
    /\ ctl_closes = 1 /\ listen_closes = 0

\* the k-th accepted connection was removed in its handshake (the write of
\* its id reported a disconnect); its node is the k-th of the list
TornDown(k) == k <= Len(hs) /\ hs[k].ret = 2

\* C20: a connection whose id handshake reported a peer disconnect is out of
\* the client list: no later pass reads through its node and no later
\* broadcast or reply is written to it.
C20_HandshakeDisconnectTearsDown ==
    /\ pc \in {"frames", "bcast", "after"} => ~TornDown(cur)
    /\ \A k \in 1..Len(fr.writes) : ~TornDown(fr.writes[k].node)

(***************************************************************************)
(* Claims on the client programs (checked under SpecClient)                *)
(***************************************************************************)
HasPrefix(s, p) == Len(s) >= Len(p) /\ SubSeq(s, 1, Len(p)) = p

\* a non-empty string of decimal digits
IsNumber(s) == s # <<>> /\ \A i \in 1..Len(s) : IsDigit(s[i])

\* C14: when the server closes the connection while client() is in its loop,
\* client() ends the session and returns 0: the socket is closed once, no
\* message that was never received is used, and the client does not go back
\* to wait on the closed socket.
C14_ServerCloseEndsSession ==
    c_gone =>
        /\ ~c_wild
        /\ c_pc = "done"
        /\ c_ret = 0
        /\ c_closes = 1

\* C15: client() enters its loop only after a first frame that is a decimal
\* number; after a first frame that is not numeric it has not entered the
\* loop and has sent nothing, and if the server disconnects before any frame
\* it returns without entering the loop.
C15_LoopOnlyAfterNumericId ==
    /\ c_entered => IsNumber(c_first)
    /\ (c_first # <<>> /\ ~IsNumber(c_first)) => (~c_entered /\ c_nsent = 0)
    /\ (c_pc = "done" /\ c_first = <<>>) => ~c_entered

\* C18: every frame the chat client writes, the later frames of a split
\* over-long line included, begins with "client", the id received in the
\* handshake and ':'.
C18_FramesCarryPrefix ==
    (c_entered /\ c_last # <<>> /\ IsNumber(c_first)) =>
        HasPrefix(c_last, CLIENT \o c_first \o <<COLON>>)

\* the second frame of a line that did not fit one frame: the first frame
\* filled the buffer (its CR is still at write_buf[MAX_USER_MSG]) and the
\* rest of the line went out behind a fresh prefix
C18_Witness ==
    /\ c_entered
    /\ c_first = Decimal(1)
    /\ c_nsent = 2
    /\ c_wbuf[MAX_USER_MSG + 1] = CR
    /\ c_last = CLIENT \o Decimal(1) \o <<COLON, ByteA, CR, LF>>

\* send_msg has returned after writing: the chat client writes only after
\* it entered its loop
SendMsgWrote == c_pc = "done" /\ c_nsent > 0 /\ ~c_entered

RECURSIVE JoinWords(_)
JoinWords(ws) ==
    IF ws = <<>> THEN <<>>
    ELSE IF Len(ws) = 1 THEN ws[1]
    ELSE ws[1] \o <<SPACE>> \o JoinWords(Tail(ws))

\* C19: send_msg writes exactly one frame: the arguments after the hostname
\* joined by single spaces, nothing before the first or after the last, then
\* one CRLF; and it reads nothing from the socket.
C19_SendMsgJoinsArguments ==
    SendMsgWrote =>
        /\ c_nsent = 1
        /\ c_last = JoinWords(SubSeq(c_tokens, 4, Len(c_tokens))) \o <<CR, LF>>
        /\ c_inbuf = 0 /\ c_first = <<>>

(***************************************************************************)
(* Claims on the server's bookkeeping and frame handling                   *)
(***************************************************************************)
\* C21: whenever the event loop waits in select(), client_count is the number
\* of accepted connections whose descriptor is still open, and it is never
\* negative.
C21_CountIsLiveConnections ==
    /\ client_count >= 0
    /\ pc = "select" => client_count = Cardinality(Live)

\* the server leaves the node under the cursor after a read that returned 0
\* (FrameReady): the frame loop has ended or was left by `break`
LeavesReadyNode ==
    /\ pc \in {"frames", "after"}
    /\ client_closed = 0
    /\ pc' \in {"proc", "select"}

\* C22: when the server has processed a ready client whose read reported
\* FrameReady, that client's buffer holds no complete frame any more (frames
\* behind a "\connected" query included).
C22_PassDrainsBuffer ==
    [][LeavesReadyNode =>
         find_network_newline(clients[cur].buf, clients[cur].inbuf) = -1]_vars

\* the step that ends the turn of a node whose read told of the peer's close
\* (client_closed = 1; a failed read is turned into 1 as well, server.c:370)
EndsClosedNode == pc = "frames" /\ client_closed = 1 /\ pc' # pc

\* C23: when the read for a connection reports peer-closed, the complete
\* frames still in its buffer are handled before the connection is removed
\* (none is left at the removal), and the connection is then removed.
C23_ClosedPeerIsDrained ==
    [][EndsClosedNode =>
         /\ find_network_newline(clients[cur].buf, clients[cur].inbuf) = -1
         /\ clients[cur].sock_fd \notin all_fds'
         /\ fdtab'[clients[cur].sock_fd] = 0]_vars

\* C24: when the reply to a "\connected" query fails, with a write error or
\* with a peer disconnect, the requesting connection is removed and the query
\* frame is not broadcast.
C24_FailedReplyRemovesRequester ==
    (fr.kind = "query" /\ fr.writes[1].ret # 0) =>
        /\ Len(fr.writes) = 1
        /\ fr.shown = <<>>
        /\ fr.writes[1].fd \notin all_fds
        /\ fdtab[fr.writes[1].fd] = 0

(***************************************************************************)
(* server.c: the frame loop's choice between reply and broadcast           *)
(***************************************************************************)
\* the frames start with 0 or 1 filler bytes, or with a run that puts the end
\* of "\connected" within CmdSlack bytes of where _server_commands cuts msg
CmdSlack == 1

\* _process_client_data:377-378 with _server_commands:332: msg is cut at
\* data_len - 2, and data_len is at most MAX_USER_MSG - 1
CutAt == MAX_USER_MSG - 3

PadLens ==
    {0, 1} \cup ((CutAt - Len(CONNECTED) - 1 - CmdSlack)..(CutAt - Len(CONNECTED) - 1 + CmdSlack))

\* what follows the filler: no ':', one, or two
CmdSeps == {<<>>, <<COLON>>, <<COLON, COLON>>}

\* and behind that: nothing, the command, the command cut short, the command
\* with one or two bytes more, another byte
CmdTails ==
    {<<>>, CONNECTED, SubSeq(CONNECTED, 1, Len(CONNECTED) - 1),
     CONNECTED \o <<ByteA>>, CONNECTED \o <<ByteA, ByteA>>, <<ByteA>>}

CmdPayloads ==
    {p \in {Rep(ByteA, n) \o sep \o tail : n \in PadLens, sep \in CmdSeps, tail \in CmdTails} :
        Len(p) <= MAX_USER_MSG}

\* a frame as get_message hands it out
InitCommands ==
    /\ CodecIdle /\ ServerIdle /\ ClientIdle /\ WriterIdle
    /\ q_msg \in {p \o <<CR, LF>> : p \in CmdPayloads}
    /\ q_kind = "none"

\* server.c:376-389: write_buf, data_len and _server_commands on the frame
Classify ==
    /\ q_kind = "none"
    /\ \E wb \in {FrameWriteBuf(q_msg)} :
       \E data_len \in {Strlen(wb)} :
          q_kind' = IF IsConnectedCmd(q_msg, data_len) THEN "query" ELSE "bcast"
    /\ UNCHANGED <<q_msg, wrVars, codecVars, cliVars, wireVars, srvVars, envVars, histVars>>

NextCommands == Classify

SpecCommands == InitCommands /\ [][NextCommands]_vars

\* the payload of the frame, and whether it holds a ':' followed, up to the
\* terminator, by exactly "\connected"
QPayload == SubSeq(q_msg, 1, Len(q_msg) - 2)
IsQueryFrame ==
    \E i \in 1..Len(QPayload) :
        /\ QPayload[i] = COLON
        /\ \A j \in 1..(i - 1) : QPayload[j] # COLON
        /\ SubSeq(QPayload, i + 1, Len(QPayload)) = CONNECTED

\* C25: a frame is treated as a status query if and only if it holds a ':'
\* and the payload after the first ':' is exactly "\connected"; every other
\* frame of up to 128 payload bytes is broadcast.
C25_QueryIffExactCommand ==
    q_kind # "none" => (q_kind = "query" <=> IsQueryFrame)

\* C26: the bytes handed to any one connection are a concatenation of whole
\* frames: once a write to a connection has stopped inside a frame, nothing
\* more is written to that connection.
C26_OnlyWholeFrames == \A c \in Conns : torn[c] # "mixed"

(***************************************************************************)
(* Claims on the client's receive and input paths                          *)
(***************************************************************************)
\* _recieve_message is in its loop `while (msg_len <= 2)` with no complete
\* frame in the buffer: get_message fails and nothing is read
ReceiveSpins ==
    /\ c_pc \in {"hs_get", "recv_get"}
    /\ get_message(c_buf, c_inbuf).ret # 0

\* C27: _recieve_message always returns once the server has delivered a
\* complete non-empty frame or has closed: after it discarded an empty frame
\* it never loops without reading while no complete frame is buffered.
C27_ReceiveNeverSpins == ~ReceiveSpins

\* the bytes of s that are not a newline
NotNewline(b) == b # LF
NoNewlines(s) == SelectSeq(s, NotNewline)

\* client() has returned because stdin was at its end
InputDone == c_pc = "done" /\ c_eof /\ c_nsent < MaxFrames

\* C28: for the lines the user types, with or without a final newline, the
\* payloads of the frames sent, without the prefix and one after the other,
\* are the bytes typed without the newlines, none lost, doubled or made up (a
\* prefix of them while input is left, all of them at the end), and no frame
\* carries more than 128 payload bytes.
C28_FramesCarryTheInput ==
    c_entered =>
        /\ HasPrefix(NoNewlines(c_line), c_echo)
        /\ InputDone => c_echo = NoNewlines(c_line)
        /\ c_last # <<>> => Len(c_last) - 2 <= MAX_USER_MSG

(***************************************************************************)
(* Claims on the buffer as a queue of bytes (checked under SpecCodec)      *)
(***************************************************************************)
\* the bytes of the buffer that count
k_valid == SubSeq(k_buf, 1, k_inbuf)

\* C29: over any sequence of reads and extractions on one buffer, the frames
\* get_message returned, end to end, followed by the bytes now valid in the
\* buffer, are the bytes the transport has delivered so far, in order.
C29_NothingLostOrDuplicated ==
    k_popped \o k_valid = SubSeq(k_orig, 1, k_delivered)

\* C29 witness: two frames were extracted, a byte of a third is buffered and
\* more of the stream is still to come
C29_Witness ==
    /\ k_op = "get" /\ k_gret = 0
    /\ Len(k_popped) > Len(k_msg)
    /\ k_inbuf > 0 /\ k_stream # <<>>

\* the offsets at which a CRLF among the first n bytes of b ends
FrameEnds(b, n) == {e \in 2..n : b[e - 1] = CR /\ b[e] = LF}

GetStep == k_op' = "get"

\* C30: get_message on a buffer that holds a complete frame returns 0 and
\* exactly the first frame through its CRLF, leaves the other valid bytes at
\* offset 0 in their order and lowers inbuf by the length of the frame; on a
\* buffer without a complete frame it returns 1 and leaves buffer and inbuf
\* as they were.
C30_GetMessagePopsFirstFrame ==
    [][GetStep =>
        LET ends == FrameEnds(k_buf, k_inbuf)
        IN IF ends = {}
           THEN /\ k_gret' = 1
                /\ k_buf' = k_buf /\ k_inbuf' = k_inbuf
           ELSE LET e == Min(ends)
                IN /\ k_gret' = 0
                   /\ k_msg' = SubSeq(k_buf, 1, e)
                   /\ k_inbuf' = k_inbuf - e
                   /\ SubSeq(k_buf', 1, k_inbuf') = SubSeq(k_buf, e + 1, k_inbuf)
    ]_vars

\* C30 witness: get_message took the first of two buffered frames and left the
\* second, with a byte behind it, at the front
C30_Witness ==
    /\ k_op = "get" /\ k_gret = 0 /\ k_popped = k_msg
    /\ FrameEnds(k_buf, k_inbuf) # {}
    /\ Max(FrameEnds(k_buf, k_inbuf)) < k_inbuf

\* the failing call of C30: get_message found no frame in bytes that a read
\* had left behind the frames
C30_WitnessNoFrame ==
    /\ k_op = "get" /\ k_gret = 1 /\ k_inbuf > 0

(***************************************************************************)
(* Claims on buffers, writes and the scan (C31..C33)                       *)
(***************************************************************************)
InbufInRange(n) == n >= 0 /\ n <= BUF_SIZE

\* C31: in every reachable state the count of valid bytes of every buffer
\* that read_from_socket and get_message work on (each node of the server's
\* client list, the client's server link, the buffer of the codec harness)
\* is at least 0 and at most BUF_SIZE (131), whatever reads, extractions and
\* errors came before.
C31_InbufWithinCapacity ==
    /\ InbufInRange(k_inbuf)
    /\ InbufInRange(c_inbuf)
    /\ \A i \in 1..Len(clients) : InbufInRange(clients[i].inbuf)

\* C31 witness: a read filled the buffer to its last byte, with bytes of the
\* stream left over, and get_message then took the frame at its front
C31_Witness ==
    /\ k_op = "get" /\ k_gret = 0
    /\ Len(k_msg) + k_inbuf = BUF_SIZE
    /\ k_stream # <<>>

(***************************************************************************)
(* write_to_socket on its own                                              *)
(***************************************************************************)
\* the call is made with len of 0..MaxWriteLen on a buffer that is one byte
\* longer, and up to MaxCalls write() calls return what the transport chooses
MaxWriteLen == 3
MaxCalls == 3

\* bytes that differ from one another, so that their order shows
WriterBuf == [i \in 1..(MaxWriteLen + 1) |-> ByteA + i - 1]

\* write() returns -1, 0, or the number of bytes it took (at least 1)
WriteReturns == {-1, 0} \cup (1..MaxWriteLen)

SeqsUpTo(S, n) == UNION {[1..k -> S] : k \in 0..n}

InitWriter ==
    /\ CodecIdle /\ ServerIdle /\ ClientIdle /\ CommandsIdle
    /\ w_buf = WriterBuf
    /\ w_len \in 0..MaxWriteLen
    /\ w_wr \in SeqsUpTo(WriteReturns, MaxCalls)
    /\ w_res = NotCalled

\* socket.c:121-141: one call of write_to_socket
WriterCall ==
    /\ w_res.ret = 9
    /\ \E w \in {write_to_socket(w_buf, w_len, w_wr)} :
          w_res' = [ret |-> w.ret, put |-> w.put]
    /\ UNCHANGED <<w_buf, w_len, w_wr, cmdVars, codecVars, cliVars, wireVars,
                   srvVars, envVars, histVars>>

NextWriter == WriterCall

SpecWriter == InitWriter /\ [][NextWriter]_vars

\* the bytes the first j write() calls took, if none of them failed
RECURSIVE TakenBy(_)
TakenBy(j) == IF j = 0 THEN 0 ELSE TakenBy(j - 1) + w_wr[j]

\* the write() call that ended the loop early, if there is one: the first
\* call that returned -1 or 0, made because bytes were still unwritten
FailedCalls ==
    {j \in 1..Len(w_wr) :
        /\ w_wr[j] <= 0
        /\ \A k \in 1..(j - 1) : w_wr[k] > 0
        /\ TakenBy(j - 1) < w_len}

\* C32: write_to_socket returns 0 only when exactly the first len bytes of
\* buf went out, each once and in order (after a short write the next call
\* goes on from the first unwritten byte); it returns 2 exactly when a
\* write() call returned 0 and 1 exactly when a write() call returned -1, and
\* what went out before that call is the start of buf.
C32_WriteToSocket ==
    w_res.ret # 9 =>
        /\ w_res.ret \in {0, 1, 2}
        /\ w_res.ret = 0 => w_res.put = SubSeq(w_buf, 1, w_len)
        /\ w_res.ret = 2 <=> \E j \in FailedCalls : w_wr[j] = 0
        /\ w_res.ret = 1 <=> \E j \in FailedCalls : w_wr[j] = -1
        /\ \A j \in FailedCalls : w_res.put = SubSeq(w_buf, 1, TakenBy(j - 1))

\* C32 witness: three bytes went out in two short writes and the call
\* returned 0
C32_Witness ==
    /\ w_res.ret = 0 /\ w_len = 3
    /\ Len(w_wr) >= 2 /\ w_wr[1] = 1 /\ w_wr[2] = 2
    /\ w_res.put = SubSeq(w_buf, 1, 3)

\* a call that returned 2 after a short write
C32_WitnessDisconnect ==
    /\ w_res.ret = 2 /\ Len(w_res.put) = 1 /\ w_len = 3

(***************************************************************************)
(* The scan for the terminator (checked under SpecCodec)                   *)
(***************************************************************************)
\* the last valid byte is a CR and the byte behind it, outside the valid
\* bytes, is an LF
CrAtEdge ==
    /\ k_inbuf >= 1 /\ k_inbuf < BUF_SIZE
    /\ k_buf[k_inbuf] = CR /\ k_buf[k_inbuf + 1] = LF

\* C33: on every buffer the harness reaches, find_network_newline gives the
\* offset just behind the first CR LF pair that lies within the valid bytes,
\* and -1 if there is none; a CR in the last valid position with an LF behind
\* it is not taken for a terminator.
C33_FindNetworkNewline ==
    LET ends == FrameEnds(k_buf, k_inbuf)
        r == find_network_newline(k_buf, k_inbuf)
    IN /\ r = (IF ends = {} THEN -1 ELSE Min(ends))
       /\ (CrAtEdge /\ ends = {}) => r = -1

\* C33 witness: the buffer was zeroed at the start; two frames were taken out
\* and what is left ends in a CR with a stale LF right behind the valid bytes
C33_Witness ==
    /\ CrAtEdge /\ FrameEnds(k_buf, k_inbuf) = {}
    /\ k_op = "get" /\ k_gret = 0
    /\ k_buf[BUF_SIZE] = NUL

(***************************************************************************)
(* Claims on the event loop (C34..C40, checked under Spec and FairSpec)    *)
(***************************************************************************)
\* a step in which select() returns interrupted, or the step that follows it
InterruptStep == pc' = "eintr" \/ pc = "eintr"

\* C34: when select() is interrupted (EINTR) the server goes back to the wait
\* with the watched set, the client list, client_id and client_count as they
\* were; it does not leave the loop and exit_status is not touched.
C34_InterruptedSelectRetries ==
    [][InterruptStep =>
          /\ all_fds' = all_fds /\ clients' = clients
          /\ client_id' = client_id /\ client_count' = client_count
          /\ exit_status' = exit_status
          /\ max_fd' = max_fd
          /\ pc = "eintr" => (pc' = "select" /\ listen_fds' = all_fds)
    ]_vars

\* C34 witness: select() returned interrupted while a client was connected
\* and watched, with the first bytes of a frame in its buffer
C34_Witness ==
    /\ pc = "eintr"
    /\ client_count = 1 /\ Len(clients) = 1
    /\ clients[1].sock_fd \in all_fds
    /\ clients[1].inbuf > 0

\* the server is inside a pass of _process_client_data
InPass == pc \in {"proc", "frames", "bcast", "after"}

\* the read() of the node under the cursor waits for the peer: nothing is
\* queued, the peer has not closed, and no fault is left to inject
ReadWaits ==
    /\ pc = "proc"
    /\ clients[cur].inbuf < BUF_SIZE
    /\ ReadAnswers(clients[cur]) = {}

\* C35: every pass of _process_client_data comes to its end and the server is
\* back in the select wait (stated for the runs in which the server runs
\* whenever it can; a pass that waits in read() for a peer is not held
\* against it).
C35_PassTerminates == InPass ~> (pc = "select" \/ ReadWaits)

\* C36: over the whole run, clean exit included, close() is called once for
\* each accepted client connection: never on a descriptor number that is
\* closed already, and no client descriptor is left open when server() has
\* returned.
C36_EachConnectionClosedOnce ==
    /\ ~bad_close
    /\ pc = "exited" => Live = {}

\* no two nodes of the client list carry the same descriptor number
DistinctDescriptors ==
    \A i, j \in 1..Len(clients) :
        i # j => clients[i].sock_fd # clients[j].sock_fd

\* the frame being broadcast was handed to no live connection twice
WrittenOncePerConnection ==
    \A k, l \in 1..Len(fr.writes) :
        (k # l /\ fr.writes[k].conn # 0) => fr.writes[k].conn # fr.writes[l].conn

\* a read stores bytes in the buffer of the node under the cursor; node i was
\* made for the i-th accepted connection, hs[i].conn
ReadStoresBytes ==
    /\ pc = "proc" /\ pc' = "frames"
    /\ clients'[cur].inbuf > clients[cur].inbuf

\* C37: a broadcast frame is written to a live connection at most once, and
\* the bytes that arrive on a connection are stored in the buffer of that
\* connection's own node only, also after a removal followed by an accept
\* that reuses the descriptor number: no two nodes of the list carry the same
\* descriptor.
C37_OneNodePerDescriptor ==
    /\ [](DistinctDescriptors /\ WrittenOncePerConnection)
    /\ [][ReadStoresBytes => fdtab[clients[cur].sock_fd] = hs[cur].conn]_vars

\* select() has reported the listening socket and the control descriptor
\* ready, and the server is at the accept
AcceptWithControlReady == pc = "accept" /\ CtlFd \in listen_fds

\* C38: in an iteration in which select() reports the control descriptor
\* ready the server reads it in that same iteration, whatever accept() and
\* the id handshake do: from the accept it goes on to the control read (or
\* leaves the loop), never straight back to select().
C38_ControlReadInSameIteration ==
    [][AcceptWithControlReady => (pc' = "control" \/ LeftLoop')]_vars

\* a read on an open descriptor, with no transport fault and not at the end
\* of the stream, made the server give the connection up: read_from_socket
\* returned -1
ErrorReported ==
    /\ pc = "proc" /\ pc' = "frames"
    /\ client_closed' = 1
    /\ faults' = faults
    /\ fdtab[clients[cur].sock_fd] # 0
    /\ ~(inq[fdtab[clients[cur].sock_fd]] = <<>> /\ fin[fdtab[clients[cur].sock_fd]])

\* C39: every peer sends well-formed frames only (payloads of at most 128
\* bytes, each ended by CRLF, status queries among them), in any chunking:
\* the read for its connection never reports an error, so the connection is
\* never removed for a protocol violation.
C39_WellFormedStreamNeverRejected == [][~ErrorReported]_vars

(***************************************************************************)
(* Claim on the order of broadcasts (C40)                                  *)
(***************************************************************************)
\* a message is taken out of the buffer of the node under the cursor
ExtractStep == pc = "frames" /\ pc' \in {"bcast", "after"}

\* one more write of the broadcast under way
BroadcastWriteStep == pc = "bcast" /\ Len(fr'.writes) = Len(fr.writes) + 1

\* the broadcast loop has run to the end of the list: every node from the one
\* it started at was written to
BroadcastComplete ==
    /\ fr.done
    /\ \A i \in BroadcastStart(fr.node)..Len(clients) :
          \E k \in DOMAIN fr.writes : fr.writes[k].node = i

\* the bytes written start with the payload of the frame, as far as the copy
\* of MAX_USER_MSG - 1 bytes holds it
CarriesFrame(wire, msg) ==
    LET p == Min({Len(msg) - 2, MAX_USER_MSG - 1})
    IN Len(wire) >= p /\ SubSeq(wire, 1, p) = SubSeq(msg, 1, p)

\* C40: frames of one connection's buffer are broadcast in buffer order.
\* Every extraction takes the first frame of the buffer and leaves the bytes
\* behind it at the front in their order, so a later extraction, in the same
\* pass or a later one, takes a later frame; while a broadcast is under way
\* the buffer is not touched and every write carries the frame extracted; the
\* broadcast loop is left only when it has run over every destination, and
\* the next frame is extracted only after that.
C40_FramesBroadcastInOrder ==
    [][/\ ExtractStep =>
            LET node == clients[cur]
                ends == FrameEnds(node.buf, node.inbuf)
            IN /\ ends # {}
               /\ fr'.msg = SubSeq(node.buf, 1, Min(ends))
               /\ clients'[cur].inbuf = node.inbuf - Min(ends)
               /\ SubSeq(clients'[cur].buf, 1, clients'[cur].inbuf)
                     = SubSeq(node.buf, Min(ends) + 1, node.inbuf)
               /\ fr.kind = "bcast" => BroadcastComplete
       /\ BroadcastWriteStep =>
            /\ clients' = clients
            /\ fr'.msg = fr.msg
            /\ CarriesFrame(fr'.writes[Len(fr'.writes)].wire, fr.msg)
       /\ (pc = "bcast" /\ pc' # "bcast") => BroadcastComplete'
    ]_vars

\* C40 witness: the second of two chat lines of one connection is extracted
\* for its broadcast, the list holding two nodes and the sender being the
\* first
C40_Witness ==
    /\ pc = "bcast" /\ fr.kind = "bcast" /\ fr.writes = <<>>
    /\ fr.msg = Chat2 /\ fr.node = 1 /\ fr.conn = 1
    /\ Len(clients) = 2 /\ client_count = 2

\* both lines were in the buffer at once: the broadcast of the first is
\* complete, both nodes written in full, and the second is the whole buffer
C40_WitnessOnePass ==
    /\ pc = "frames" /\ fr.kind = "bcast" /\ fr.done
    /\ fr.msg = Chat /\ fr.node = 1
    /\ Len(fr.writes) = 2 /\ \A k \in 1..2 : fr.writes[k].ret = 0
    /\ clients[1].inbuf = Len(Chat2)
    /\ SubSeq(clients[1].buf, 1, Len(Chat2)) = Chat2

\* the second line arrives later: the broadcast of the first is complete and
\* the buffer holds the second without its last byte
C40_WitnessLaterPass ==
    /\ pc = "frames" /\ fr.kind = "bcast" /\ fr.done
    /\ fr.msg = Chat /\ fr.node = 1
    /\ Len(fr.writes) = 2
    /\ clients[1].inbuf = Len(Chat2) - 1
    /\ SubSeq(clients[1].buf, 1, Len(Chat2) - 1) = SubSeq(Chat2, 1, Len(Chat2) - 1)

====
